---- MODULE Spec2Model ----
(***************************************************************************)
(* State-machine model of the quiz server's real-time session engine:      *)
(* the websocket Hub (pkg/websocket/hub.go) and the quiz Service           *)
(* (internal/quiz/service.go) over its Repository and cache.               *)
(*                                                                         *)
(* Goroutines are interleaved at the granularity of their synchronisation  *)
(* points: a section executed under h.mu is one step, every database or    *)
(* cache call is one step, every channel operation is one step.            *)
(***************************************************************************)
EXTENDS Integers, Sequences, FiniteSets, TLC

VARIABLES
    \* ---- Hub (hub.go:45-55)
    clients,        \* h.clients: set of registered *Client
    quizRooms,      \* h.quizRooms: quizCode -> set of *Client (domain = rooms created)
    participants,   \* h.participants: quizCode -> int
    clientsByUser,  \* h.clientsByUser: userID -> *Client or Nil
    hosts,          \* h.hosts: userID -> *Client or Nil
    run,            \* the client each Hub.Run loop took from h.unregister, or Idle
    \* ---- Client (hub.go:97-105)
    quizCode,       \* c.quizCode, Nil before NewClient
    user,           \* c.user (the announced userID) or Nil
    isHost,         \* c.isHost
    send,           \* c.send: the buffered outbound queue
    closed,         \* c.send and c.done are closed (they are closed together)
    readPump,       \* position of the client's readPump goroutine
    writePump,      \* position of the client's writePump goroutine
    \* ---- goroutines running hub / service calls
    tasks,          \* the calls in flight, each with its position
    budget,         \* how many more requests the clients may still make
    panicked,       \* "" or the unrecovered runtime panic that ended the process
    \* ---- persistent store and cache as seen by Service / Repository
    removeReq,      \* per client: removeParticipantFromDB goroutines started
    progress,       \* user_quiz_progress.next_index per (quiz,user), NoRow if absent
    responses,      \* user_quiz_responses rows per (quiz,user): sequence of scores
    dbActive,       \* quizzes.is_active per quiz
    leaderboard,    \* the cached ranking per quiz: user -> total score
    cacheQuiz,      \* per quiz: is_active of the copy cached under quiz:<code>, <<>> if none
    finals,         \* per quiz: final_leaderboard broadcasts of the current activation
    starts          \* per quiz: activations (StartQuiz calls that marked it active)

hubVars    == <<clients, quizRooms, participants, clientsByUser, hosts>>
clientVars == <<quizCode, user, isHost, send, closed>>
pumpVars   == <<readPump, writePump>>
storeVars  == <<progress, responses, dbActive, cacheQuiz, leaderboard, finals, starts>>
vars == <<clients, quizRooms, participants, clientsByUser, hosts, run,
          quizCode, user, isHost, send, closed, readPump, writePump,
          tasks, budget, panicked, removeReq,
          progress, responses, dbActive, cacheQuiz, leaderboard, finals, starts>>

----------------------------------------------------------------------------
\* Bounds of the model.

\* capacity of a client's send channel in the model (256 in NewClient)
SendCap == 1
\* requests (websocket messages, REST calls) the clients make over a run
MaxRequests == 2
\* a client makes a paced request only while fewer goroutines than this are pending
MaxPending == 1
\* answer_submitted messages the clients of a session in progress send
MaxBroadcasts == 1
\* questions of a quiz
NumQuestions == 2

Conns == {"c1", "c2"}
\* the connection whose whole life SpecHub follows
HubConns == {"c1"}
Codes == {"Q1"}
Users == {"h", "u1", "u2"}
Runs  == {1, 2}          \* main.go starts Hub.Run twice
Nil   == "nil"
Idle  == "idle"
NoRow == -1

\* quiz.CreatorID of each quiz (the host identity)
CreatorID == [q \in Codes |-> "h"]

\* the questions of every quiz, by position (models.Question)
Questions == [i \in 0..(NumQuestions - 1) |-> [id |-> i, correctAnswer |-> "a", timeLimit |-> 0]]
\* Go's int is 64 bits wide on the server: a value is kept as its four 16-bit
\* limbs, least significant first, in two's complement, and the arithmetic
\* wraps around as the compiled code does.
Limb == 2^16
GoInt(n) == <<n % Limb, (n \div Limb) % Limb, 0, 0>>
Negative(x) == x[4] >= Limb \div 2
Value(x) == x[1] + Limb * (x[2] + Limb * (x[3] + Limb * x[4]))
Mul10(x) ==
    LET p1 == x[1] * 10
        p2 == x[2] * 10 + p1 \div Limb
        p3 == x[3] * 10 + p2 \div Limb
        p4 == x[4] * 10 + p3 \div Limb
    IN <<p1 % Limb, p2 % Limb, p3 % Limb, p4 % Limb>>
Sub(x, y) ==
    LET d1 == Limb + x[1] - y[1]
        d2 == Limb + x[2] - y[2] - (1 - d1 \div Limb)
        d3 == Limb + x[3] - y[3] - (1 - d2 \div Limb)
        d4 == Limb + x[4] - y[4] - (1 - d3 \div Limb)
    IN <<d1 % Limb, d2 % Limb, d3 % Limb, d4 % Limb>>

\* what the clients answer, and after how many seconds
Answers == {"a", "b"}
TimesSpent == {GoInt(5)}

----------------------------------------------------------------------------
\* Wire envelopes {type, data} (hub.go:16-19).

MsgUpdate(count) == [type |-> "participant_update", count |-> count]
MsgList(parts, count, host) ==
    [type |-> "participant_list", participants |-> parts, count |-> count, host |-> host]

\* A goroutine executing hub code.  Every record has the same fields.
\* conn is the client whose readPump runs the call synchronously (Nil for a
\* goroutine of its own); raced are the clients written to the room's map
\* while the call iterated it; snap and seen record what a broadcast visited.
Task0 == [id |-> 0, kind |-> "", pc |-> "", code |-> Nil, usr |-> Nil, conn |-> Nil,
          msgs |-> <<>>, raced |-> {}, todo |-> {}, cur |-> Nil,
          snap |-> {}, seen |-> {}, idx |-> 0, fin |-> 0, tot |-> 0, act |-> 0,
          board |-> <<>>]

\* go h.BroadcastMessage(code, ...) for each message of msgs in turn
BcastTask(id, kind, code, msgs) ==
    [Task0 EXCEPT !.id = id, !.kind = kind, !.pc = "read", !.code = code, !.msgs = msgs]

\* go h.SendParticipantList(code)
ListTask(id, code) ==
    [Task0 EXCEPT !.id = id, !.kind = "SendParticipantList", !.pc = "list", !.code = code]

Alive == panicked = ""

\* identities for new goroutines: the smallest ones not in use
TaskIds == 1 .. (2 * MaxPending + 4)
FreeIds == TaskIds \ {t.id : t \in tasks}
Id1 == CHOOSE i \in FreeIds : \A j \in FreeIds : i <= j
Id2 == CHOOSE i \in FreeIds \ {Id1} : \A j \in FreeIds \ {Id1} : i <= j
\* the clients pace their requests
Paced == Cardinality(tasks) < MaxPending

Room(q) == IF q \in DOMAIN quizRooms THEN quizRooms[q] ELSE {}

\* BroadcastToQuiz ranges over the room's map after it released h.mu (hub.go
\* lines 111-128), so an insert or delete made under h.mu can run during the
\* iteration.  The Go runtime either detects it and stops the process, or the
\* iteration goes on and may or may not yield the entry that was written.
Fatal == "fatal error: concurrent map iteration and map write"
Iterated(q) == \E t \in tasks : t.pc = "copy" /\ t.code = q
MapWrite(q, c, ts) ==
    {IF t.pc = "copy" /\ t.code = q THEN [t EXCEPT !.raced = @ \cup {c}] ELSE t : t \in ts}

----------------------------------------------------------------------------
\* No answer has been processed yet.
EmptyStore ==
    /\ progress = [q \in Codes |-> [u \in Users |-> NoRow]]
    /\ responses = [q \in Codes |-> [u \in Users |-> <<>>]]
    /\ leaderboard = [q \in Codes |-> [u \in {} |-> 0]]
    /\ finals = [q \in Codes |-> 0]
\* The quizzes as CreateQuiz leaves them, and after their first start.
\* CreateQuiz caches the quiz as it stores it, inactive, and nothing writes
\* the cached copy of a quiz while it is there.
Pending ==
    /\ dbActive = [q \in Codes |-> FALSE]
    /\ starts = [q \in Codes |-> 0]
    /\ cacheQuiz = [q \in Codes |-> <<FALSE>>]
Active ==
    /\ dbActive = [q \in Codes |-> TRUE]
    /\ starts = [q \in Codes |-> 1]
    /\ cacheQuiz = [q \in Codes |-> <<FALSE>>]

\* The server has started: no room, no connection, an empty store.
Started ==
    /\ clients = {}
    /\ quizRooms = [q \in {} |-> {}]
    /\ participants = [q \in Codes |-> 0]
    /\ clientsByUser = [u \in Users |-> Nil]
    /\ hosts = [u \in Users |-> Nil]
    /\ run = [r \in Runs |-> Idle]
    /\ quizCode = [c \in Conns |-> Nil]
    /\ user = [c \in Conns |-> Nil]
    /\ isHost = [c \in Conns |-> FALSE]
    /\ send = [c \in Conns |-> <<>>]
    /\ closed = [c \in Conns |-> FALSE]
    /\ readPump = [c \in Conns |-> "none"]
    /\ writePump = [c \in Conns |-> "none"]
    /\ tasks = {}
    /\ panicked = ""
    /\ removeReq = [c \in Conns |-> 0]
    /\ EmptyStore
    /\ Pending

Init ==
    /\ Started
    /\ budget = MaxRequests

----------------------------------------------------------------------------
\* Hub.RegisterClient, called by HandleWebSocket after NewClient; the two pumps
\* are started right after it.
RegisterClient(c, q) ==
    /\ Alive
    /\ quizCode[c] = Nil
    /\ Paced
    /\ \/ /\ LET room  == Room(q) \cup {c}
                 count == Cardinality({x \in room : user[x] # Nil /\ hosts[user[x]] = Nil})
             IN /\ quizRooms' = [k \in DOMAIN quizRooms \cup {q} |->
                                    IF k = q THEN room ELSE quizRooms[k]]
                /\ clients' = clients \cup {c}
                /\ participants' = [participants EXCEPT ![q] = count]
                /\ tasks' = MapWrite(q, c, tasks)
                              \cup { BcastTask(Id1, "BroadcastMessage", q, <<MsgUpdate(count)>>),
                                     ListTask(Id2, q) }
          /\ quizCode' = [quizCode EXCEPT ![c] = q]
          /\ readPump' = [readPump EXCEPT ![c] = "read"]
          /\ writePump' = [writePump EXCEPT ![c] = "run"]
          /\ panicked' = panicked
       \/ /\ Iterated(q)
          /\ panicked' = Fatal
          /\ UNCHANGED <<clients, quizRooms, participants, tasks, quizCode, pumpVars>>
    /\ UNCHANGED <<clientsByUser, hosts, run, user, isHost, send, closed,
                   budget, removeReq, storeVars>>

----------------------------------------------------------------------------
\* Client.handleMessage, case "join_quiz": the client announces its identity.
\* lookupOk = FALSE is checkIfHost returning an error (isHost defaults to false).
handleMessageJoin(c, u, lookupOk) ==
    /\ Alive
    /\ readPump[c] = "read"
    /\ budget >= 1 /\ Paced
    /\ LET host == lookupOk /\ CreatorID[quizCode[c]] = u
       IN /\ user' = [user EXCEPT ![c] = u]
          /\ isHost' = [isHost EXCEPT ![c] = host]
          /\ hosts' = IF host THEN [hosts EXCEPT ![u] = c] ELSE hosts
          /\ clientsByUser' = IF host THEN clientsByUser ELSE [clientsByUser EXCEPT ![u] = c]
    /\ tasks' = tasks \cup {ListTask(Id1, quizCode[c])}
    /\ budget' = budget - 1
    /\ UNCHANGED <<clients, quizRooms, participants, run, quizCode, send, closed,
                   pumpVars, panicked, removeReq, storeVars>>

\* Client.handleMessage, case "answer_submitted": the quiz code and the user
\* are taken from the message; the broadcast runs in the readPump goroutine.
MsgAnswer(u) == [type |-> "answer_update", userId |-> u]

handleMessageAnswer(c, q, u) ==
    /\ Alive
    /\ readPump[c] = "read"
    /\ budget >= 1
    /\ readPump' = [readPump EXCEPT ![c] = "handle"]
    /\ tasks' = tasks \cup
         {[BcastTask(Id1, "handleMessage", q, <<MsgAnswer(u)>>) EXCEPT !.conn = c]}
    /\ budget' = budget - 1
    /\ UNCHANGED <<hubVars, run, clientVars, writePump, panicked, removeReq, storeVars>>

\* Client.handleMessage on a message that is not well formed. What is not a
\* JSON envelope fails json.Unmarshal and is dropped; data that is not an
\* object fails the checked assertion msg.Data.(map[string]interface{}) and is
\* dropped; a field that is absent or of another type fails an unchecked
\* assertion such as data["quizCode"].(string), which panics in the readPump
\* goroutine, where nothing recovers.
Faults == {"envelope", "data", "field"}
ConversionPanic == "panic: interface conversion: interface {} is nil, not string"

handleMessageMalformed(c, fault) ==
    /\ Alive
    /\ readPump[c] = "read"
    /\ budget >= 1
    /\ budget' = budget - 1
    /\ panicked' = IF fault = "field" THEN ConversionPanic ELSE panicked
    /\ UNCHANGED <<hubVars, run, clientVars, pumpVars, tasks, removeReq, storeVars>>

\* Client.readPump: ReadMessage fails (peer closed, deadline, transport error);
\* the deferred function then blocks on h.unregister <- c.
readPumpError(c) ==
    /\ Alive
    /\ readPump[c] = "read"
    /\ readPump' = [readPump EXCEPT ![c] = "unregister"]
    /\ UNCHANGED <<hubVars, run, clientVars, writePump, tasks, budget,
                   panicked, removeReq, storeVars>>

\* A writePump that takes the message enqueued last.
writePumpWriteLast(c) ==
    /\ Alive
    /\ writePump[c] = "run"
    /\ send[c] # <<>>
    /\ send' = [send EXCEPT ![c] = SubSeq(@, 1, Len(@) - 1)]
    /\ UNCHANGED <<hubVars, run, quizCode, user, isHost, closed, readPump, writePump,
                   tasks, budget, panicked, removeReq, storeVars>>

\* Client.writePump: one message taken from c.send and written to the transport.
writePumpWrite(c) ==
    /\ Alive
    /\ writePump[c] = "run"
    /\ send[c] # <<>>
    /\ send' = [send EXCEPT ![c] = Tail(@)]
    /\ UNCHANGED <<hubVars, run, quizCode, user, isHost, closed, readPump, writePump,
                   tasks, budget, panicked, removeReq, storeVars>>

\* A writePump with neither the !ok test on c.send nor the case on c.done:
\* it goes round its loop once more.
writePumpSpins(c) ==
    /\ Alive
    /\ writePump[c] = "run"
    /\ closed[c]
    /\ UNCHANGED vars

\* Client.writePump returns: c.done is closed, or c.send is closed and drained.
writePumpReturn(c) ==
    /\ Alive
    /\ writePump[c] = "run"
    /\ closed[c]
    /\ writePump' = [writePump EXCEPT ![c] = "exit"]
    /\ UNCHANGED <<hubVars, run, clientVars, readPump, tasks, budget,
                   panicked, removeReq, storeVars>>

\* Client.writePump returns on a transport error (NextWriter, Write, Close or
\* the ping fails); its deferred c.conn.Close() makes the readPump's next
\* ReadMessage fail.
writePumpError(c) ==
    /\ Alive
    /\ writePump[c] = "run"
    /\ ~closed[c]
    /\ writePump' = [writePump EXCEPT ![c] = "exit"]
    /\ UNCHANGED <<hubVars, run, clientVars, readPump, tasks, budget,
                   panicked, removeReq, storeVars>>

----------------------------------------------------------------------------
\* Hub.SendParticipantList: the list is computed under RLock, then broadcast twice.
SendParticipantList(t) ==
    /\ Alive
    /\ t \in tasks /\ t.pc = "list"
    /\ IF t.code \notin DOMAIN quizRooms
       THEN tasks' = tasks \ {t}
       ELSE LET room  == quizRooms[t.code]
                named == {c \in room : user[c] # Nil}
                parts == {c \in named : ~isHost[c]}
                hostc == {c \in named : isHost[c]}
            IN \E h \in (IF hostc = {} THEN {Nil} ELSE {user[c] : c \in hostc}) :
                 tasks' = (tasks \ {t}) \cup
                   { [t EXCEPT !.pc = "read",
                        !.msgs = << MsgList({user[c] : c \in parts}, Cardinality(parts), h),
                                    MsgUpdate(Cardinality(parts)) >>] }
    /\ UNCHANGED <<hubVars, run, clientVars, pumpVars, budget, panicked,
                   removeReq, storeVars>>

\* The envelope a broadcast is delivering.
Item(t) == Head(t.msgs)

\* select { case c.send <- message: ... default: ... } takes the first case
\* exactly when the queue is open and has space (hub.go:141-147)
CanQueueWithin(c, cap) == ~closed[c] /\ Len(send[c]) < cap
CanQueue(c) == CanQueueWithin(c, SendCap)

\* what BroadcastToQuiz found at client c when it reached it, and how many
\* copies of the message it put on c's queue
Observed(c) == [c |-> c, len |-> Len(send[c]), closed |-> closed[c],
                sent |-> Len(send'[c]) - Len(send[c])]

\* The task after BroadcastToQuiz has returned to BroadcastMessage's caller,
\* which goes on to its next broadcast if it has one.
Returned(t) ==
    IF Len(t.msgs) > 1
    THEN {[t EXCEPT !.pc = "read", !.msgs = Tail(@), !.snap = {}, !.seen = {},
                    !.todo = {}, !.cur = Nil]}
    ELSE {}

\* The readPumps after task t took its step: a call made by handleMessage
\* returns to its readPump's loop.
Resumed(t) ==
    IF t.conn # Nil /\ Returned(t) = {}
    THEN [readPump EXCEPT ![t.conn] = "read"]
    ELSE readPump

\* Hub.BroadcastToQuiz, lines 131-148, from the clients todo of the copy on:
\* each client whose queue is open and has space gets the message; at the first
\* client whose queue is full, or closed (the send panics and is recovered),
\* the broadcaster blocks on h.unregister <- c.  The clients are visited in the
\* order the map iteration gave, which is arbitrary: done is the set of clients
\* reached before the one that blocks.
BroadcastLoopWithin(t, snap, todo, cap) ==
    LET bad == {c \in todo : ~CanQueueWithin(c, cap)}
    IN IF bad = {}
       THEN /\ send' = [c \in Conns |-> IF c \in todo THEN Append(send[c], Item(t)) ELSE send[c]]
            /\ tasks' = (tasks \ {t}) \cup
                 {[t EXCEPT !.pc = "ret", !.todo = {}, !.snap = snap, !.raced = {},
                            !.seen = @ \cup {Observed(c) : c \in todo}]}
       ELSE \E b \in bad, done \in SUBSET (todo \ bad) :
            /\ send' = [c \in Conns |-> IF c \in done THEN Append(send[c], Item(t)) ELSE send[c]]
            /\ tasks' = (tasks \ {t}) \cup
                 {[t EXCEPT !.pc = "unregister", !.cur = b, !.todo = todo \ (done \cup {b}),
                            !.snap = snap, !.raced = {},
                            !.seen = @ \cup {Observed(c) : c \in done \cup {b}}]}

BroadcastLoop(t, snap, todo) == BroadcastLoopWithin(t, snap, todo, SendCap)

\* Hub.BroadcastToQuiz, from its start: the room's map is fetched under RLock
\* (lines 109-111); an absent or empty room ends the broadcast (lines 115-118);
\* otherwise the iteration over the map starts (line 124).
BroadcastToQuiz(t) ==
    /\ Alive
    /\ t \in tasks /\ t.pc = "read"
    /\ IF Room(t.code) = {}
       THEN /\ tasks' = (tasks \ {t}) \cup Returned(t)
            /\ readPump' = Resumed(t)
       ELSE /\ tasks' = (tasks \ {t}) \cup {[t EXCEPT !.pc = "copy", !.raced = {}]}
            /\ readPump' = readPump
    /\ UNCHANGED <<hubVars, run, clientVars, writePump, budget,
                   panicked, removeReq, storeVars>>

\* Hub.BroadcastToQuiz, lines 124-148: the iteration ends with the copy of the
\* members, each entry written meanwhile being in it or not, and the loop over
\* the copy starts.
BroadcastToQuizCopy(t) ==
    /\ Alive
    /\ t \in tasks /\ t.pc = "copy"
    /\ \E x \in SUBSET t.raced :
         LET copy == (Room(t.code) \ t.raced) \cup x
         IN BroadcastLoop(t, copy, copy)
    /\ UNCHANGED <<hubVars, run, quizCode, user, isHost, closed, pumpVars, budget,
                   panicked, removeReq, storeVars>>

\* Hub.BroadcastToQuiz, resumed after h.unregister <- c was taken by a hub loop.
BroadcastToQuizResume(t) ==
    /\ Alive
    /\ t \in tasks /\ t.pc = "loop"
    /\ BroadcastLoop(t, t.snap, t.todo)
    /\ UNCHANGED <<hubVars, run, quizCode, user, isHost, closed, pumpVars, budget,
                   panicked, removeReq, storeVars>>

\* The same two steps for a send channel of capacity cap.
BroadcastToQuizCopyWithin(t, cap) ==
    /\ Alive
    /\ t \in tasks /\ t.pc = "copy"
    /\ \E x \in SUBSET t.raced :
         LET copy == (Room(t.code) \ t.raced) \cup x
         IN BroadcastLoopWithin(t, copy, copy, cap)
    /\ UNCHANGED <<hubVars, run, quizCode, user, isHost, closed, pumpVars, budget,
                   panicked, removeReq, storeVars>>

BroadcastToQuizResumeWithin(t, cap) ==
    /\ Alive
    /\ t \in tasks /\ t.pc = "loop"
    /\ BroadcastLoopWithin(t, t.snap, t.todo, cap)
    /\ UNCHANGED <<hubVars, run, quizCode, user, isHost, closed, pumpVars, budget,
                   panicked, removeReq, storeVars>>

\* BroadcastToQuiz returns (line 151).
BroadcastToQuizReturn(t) ==
    /\ Alive
    /\ t \in tasks /\ t.pc = "ret"
    /\ tasks' = (tasks \ {t}) \cup Returned(t)
    /\ readPump' = Resumed(t)
    /\ UNCHANGED <<hubVars, run, clientVars, writePump, budget, panicked,
                   removeReq, storeVars>>

----------------------------------------------------------------------------
\* Hub.Run, case client := <-h.unregister: the channel is unbuffered, so the
\* receive is one step with the sender's h.unregister <- c.
RunReceiveFromPump(r, c) ==
    /\ Alive
    /\ run[r] = Idle
    /\ readPump[c] = "unregister"
    /\ run' = [run EXCEPT ![r] = c]
    /\ readPump' = [readPump EXCEPT ![c] = "exit"]
    /\ UNCHANGED <<hubVars, clientVars, writePump, tasks, budget,
                   panicked, removeReq, storeVars>>

\* The sender is a broadcast, which goes on with its loop, or a targeted send
\* (SendMessageToUser, line 198), which returns.
RunReceiveFromTask(r, t) ==
    /\ Alive
    /\ run[r] = Idle
    /\ t \in tasks /\ t.pc \in {"unregister", "unregisterUser"}
    /\ run' = [run EXCEPT ![r] = t.cur]
    /\ tasks' = (tasks \ {t}) \cup
                  (IF t.pc = "unregister" THEN {[t EXCEPT !.pc = "loop", !.cur = Nil]} ELSE {})
    /\ UNCHANGED <<hubVars, clientVars, pumpVars, budget, panicked,
                   removeReq, storeVars>>

\* A Hub.Run whose unregister case deletes the client from h.clients and
\* leaves it in its room.
RunUnregisterGlobal(r) ==
    /\ Alive
    /\ run[r] # Idle
    /\ LET c == run[r]
       IN IF c \in clients
          THEN /\ clients' = clients \ {c}
               /\ closed' = [closed EXCEPT ![c] = TRUE]
          ELSE UNCHANGED <<clients, closed>>
    /\ run' = [run EXCEPT ![r] = Idle]
    /\ UNCHANGED <<quizRooms, participants, clientsByUser, hosts, quizCode, user, isHost,
                   send, pumpVars, tasks, budget, panicked, removeReq, storeVars>>

\* Hub.Run, lines 371-388: the body of the unregister case, under h.mu.
RunUnregister(r) ==
    /\ Alive
    /\ run[r] # Idle
    /\ LET c == run[r]
           q == quizCode[c]
       IN \/ /\ IF c \in clients
                THEN /\ clients' = clients \ {c}
                     /\ IF q \in DOMAIN quizRooms
                        THEN /\ quizRooms' = [quizRooms EXCEPT ![q] = @ \ {c}]
                             /\ participants' = [participants EXCEPT ![q] = @ - 1]
                             /\ tasks' = MapWrite(q, c, tasks) \cup
                                  {BcastTask(Id1, "BroadcastMessage", q,
                                             <<MsgUpdate(participants[q] - 1)>>)}
                        ELSE UNCHANGED <<quizRooms, participants, tasks>>
                     /\ IF closed[c]
                        THEN /\ panicked' = "close of closed channel"
                             /\ closed' = closed
                        ELSE /\ closed' = [closed EXCEPT ![c] = TRUE]
                             /\ panicked' = panicked
                ELSE UNCHANGED <<clients, quizRooms, participants, tasks, closed, panicked>>
             /\ run' = [run EXCEPT ![r] = Idle]
          \/ /\ c \in clients /\ q \in DOMAIN quizRooms /\ Iterated(q)
             /\ panicked' = Fatal
             /\ UNCHANGED <<clients, quizRooms, participants, tasks, closed, run>>
    /\ UNCHANGED <<clientsByUser, hosts, quizCode, user, isHost, send, pumpVars,
                   budget, removeReq, storeVars>>

----------------------------------------------------------------------------
\* go h.removeParticipantFromDB(code, usr)
RemoveTask(id, code, usr) ==
    [Task0 EXCEPT !.id = id, !.kind = "removeParticipantFromDB", !.pc = "remove",
                  !.code = code, !.usr = usr]

\* Hub.UnregisterClient, lines 243-279 under h.mu, when the room exists.
\* close(client.send) comes after the maps were changed and the removal
\* goroutine was started; the two broadcasts of lines 285-293 follow.
UnregisterLocked(c, q) ==
    LET room  == quizRooms[q] \ {c}
        named == {x \in room : user[x] # Nil}
        parts == {x \in named : ~isHost[x]}
        hostc == {x \in named : isHost[x]}
        count == Cardinality(parts)
        drop  == ~isHost[c] /\ user[c] # Nil
    IN /\ quizRooms' = [quizRooms EXCEPT ![q] = room]
       /\ clients' = clients \ {c}
       /\ clientsByUser' = IF user[c] # Nil
                           THEN [clientsByUser EXCEPT ![user[c]] = Nil]
                           ELSE clientsByUser
       /\ hosts' = IF user[c] # Nil THEN [hosts EXCEPT ![user[c]] = Nil] ELSE hosts
       /\ participants' = [participants EXCEPT ![q] = count]
       /\ removeReq' = IF drop THEN [removeReq EXCEPT ![c] = @ + 1] ELSE removeReq
       /\ IF closed[c]
          THEN /\ panicked' = "close of closed channel"
               /\ closed' = closed
               /\ tasks' = tasks
          ELSE /\ closed' = [closed EXCEPT ![c] = TRUE]
               /\ panicked' = panicked
               /\ \E h \in (IF hostc = {} THEN {Nil} ELSE {user[x] : x \in hostc}) :
                    tasks' = MapWrite(q, c, tasks)
                      \cup {BcastTask(Id1, "UnregisterClient", q,
                              << MsgList({user[x] : x \in parts}, count, h),
                                 MsgUpdate(count) >>)}
                      \cup (IF drop THEN {RemoveTask(Id2, q, user[c])} ELSE {})

\* Hub.UnregisterClient: the direct, locked unregistration.
UnregisterClient(c) ==
    /\ Alive
    /\ quizCode[c] # Nil
    /\ budget >= 1 /\ Paced
    /\ budget' = budget - 1
    /\ LET q == quizCode[c]
       IN IF q \in DOMAIN quizRooms
          THEN \/ UnregisterLocked(c, q)
               \/ /\ Iterated(q)
                  /\ panicked' = Fatal
                  /\ UNCHANGED <<hubVars, closed, removeReq, tasks>>
          ELSE UNCHANGED <<hubVars, closed, panicked, removeReq, tasks>>
    /\ UNCHANGED <<run, quizCode, user, isHost, send, pumpVars, storeVars>>

\* Hub.removeParticipantFromDB -> Service.RemoveParticipant: nothing for the
\* quiz's creator; otherwise the user's responses are deleted
\* (Repository.ClearUserProgress) and the participant list is re-announced.
RemoveParticipant(t) ==
    /\ Alive
    /\ t \in tasks /\ t.pc = "remove"
    /\ IF CreatorID[t.code] = t.usr
       THEN /\ tasks' = tasks \ {t}
            /\ responses' = responses
       ELSE /\ responses' = [responses EXCEPT ![t.code][t.usr] = <<>>]
            /\ tasks' = (tasks \ {t}) \cup {ListTask(t.id, t.code)}
    /\ UNCHANGED <<hubVars, run, clientVars, pumpVars, budget, panicked, removeReq,
                   progress, dbActive, cacheQuiz, leaderboard, finals, starts>>

----------------------------------------------------------------------------
\* Question.ToDTO: the time limit defaults to 30, and the correct answer is
\* copied only for the host ("" is left out of the JSON).
ToDTO(q, host) ==
    [id |-> q.id,
     timeLimit |-> IF q.timeLimit <= 0 THEN 30 ELSE q.timeLimit,
     correctAnswer |-> IF host THEN q.correctAnswer ELSE ""]

MsgQuestion(i, host) ==
    [type |-> "question", question |-> ToDTO(Questions[i], host), index |-> i,
     total |-> NumQuestions]
MsgQuizEnd == [type |-> "quiz_end"]
MsgWait == [type |-> "quiz_end_wait"]
MsgFinal(board) == [type |-> "final_leaderboard", board |-> board]

\* calculateScore, on Go's 64-bit int: the deduction timeSpent * 10 and the
\* subtraction from 1000 wrap around; a negative result is replaced by 0.
calculateScore(answer, correctAnswer, timeSpent) ==
    IF answer # correctAnswer
    THEN 0
    ELSE LET timeDeduction == Mul10(timeSpent)
             score == Sub(GoInt(1000), timeDeduction)
         IN IF Negative(score) THEN 0 ELSE Value(score)

RECURSIVE Sum(_)
Sum(sq) == IF sq = <<>> THEN 0 ELSE Head(sq) + Sum(Tail(sq))

\* Repository.GetLeaderboard: the total score of every user with a response
GetLeaderboard(q) ==
    [u \in {x \in Users : responses[q][x] # <<>>} |-> Sum(responses[q][u])]
\* Repository.GetFinishedPlayersCount: progress rows at or past total
GetFinishedPlayersCount(q, total) ==
    Cardinality({u \in Users : progress[q][u] >= total})
\* A count of every user who could take part, whether they answered or not.
GetAllParticipantsForQuiz(q) ==
    Cardinality(Users \ {CreatorID[q]})
\* Repository.GetUniqueParticipantsForQuiz: users with a response
GetUniqueParticipantsForQuiz(q) ==
    Cardinality({u \in Users : responses[q][u] # <<>>})

\* Service.GetQuizByCode: is_active of the quiz it returns, the cached copy if
\* there is one, else the stored one, which it then caches.
GetQuizByCode(q) == IF cacheQuiz[q] # <<>> THEN cacheQuiz[q][1] ELSE dbActive[q]

\* Handler.GetQuiz -> Service.GetQuizByCode: a lookup of the quiz by its code.
GetQuiz(q) ==
    /\ Alive
    /\ cacheQuiz' = [cacheQuiz EXCEPT ![q] = <<GetQuizByCode(q)>>]
    /\ UNCHANGED <<hubVars, run, clientVars, pumpVars, tasks, budget, panicked, removeReq,
                   progress, responses, dbActive, leaderboard, finals, starts>>

\* The cached copy of a quiz expires (RedisCache.SetQuiz sets it for 24 hours).
Expire(q) ==
    /\ Alive
    /\ cacheQuiz[q] # <<>>
    /\ cacheQuiz' = [cacheQuiz EXCEPT ![q] = <<>>]
    /\ UNCHANGED <<hubVars, run, clientVars, pumpVars, tasks, budget, panicked, removeReq,
                   progress, responses, dbActive, leaderboard, finals, starts>>

\* Handler.StartQuiz -> Service.StartQuiz, up to Repository.ResetQuizProgress:
\* the quiz is looked up by its code and every progress row of the quiz is
\* set to 0.  The caller is not looked at.
StartQuiz(q, u) ==
    /\ Alive
    /\ budget >= 1
    /\ budget' = budget - 1
    /\ cacheQuiz' = [cacheQuiz EXCEPT ![q] = <<GetQuizByCode(q)>>]
    /\ progress' = [progress EXCEPT ![q] = [x \in Users |-> IF @[x] = NoRow THEN NoRow ELSE 0]]
    /\ tasks' = tasks \cup {[Task0 EXCEPT !.id = Id1, !.kind = "StartQuiz", !.pc = "activate",
                                          !.code = q, !.usr = u]}
    /\ UNCHANGED <<hubVars, run, clientVars, pumpVars, panicked, removeReq,
                   responses, dbActive, leaderboard, finals, starts>>

\* A StartQuiz that takes questions[1] for the first question.
StartQuizSecond(t) ==
    /\ Alive
    /\ t \in tasks /\ t.pc = "activate"
    /\ dbActive' = [dbActive EXCEPT ![t.code] = TRUE]
    /\ starts' = [starts EXCEPT ![t.code] = @ + 1]
    /\ finals' = [finals EXCEPT ![t.code] = 0]
    /\ tasks' = (tasks \ {t}) \cup
                  {[t EXCEPT !.pc = "read", !.msgs = <<MsgQuestion(1, TRUE)>>]}
    /\ UNCHANGED <<hubVars, run, clientVars, pumpVars, budget, panicked, removeReq,
                   progress, responses, cacheQuiz, leaderboard>>

\* Service.StartQuiz, lines 79-94: the quiz is marked active in the store
\* (Repository.UpdateQuiz; the cached copy is not written) and the first
\* question, converted with ToDTO(true), is broadcast to the room.
StartQuizActivate(t) ==
    /\ Alive
    /\ t \in tasks /\ t.pc = "activate"
    /\ dbActive' = [dbActive EXCEPT ![t.code] = TRUE]
    /\ starts' = [starts EXCEPT ![t.code] = @ + 1]
    /\ finals' = [finals EXCEPT ![t.code] = 0]
    /\ tasks' = (tasks \ {t}) \cup
                  {[t EXCEPT !.pc = "read", !.msgs = <<MsgQuestion(0, TRUE)>>]}
    /\ UNCHANGED <<hubVars, run, clientVars, pumpVars, budget, panicked, removeReq,
                   progress, responses, cacheQuiz, leaderboard>>

\* A HandleNextQuestion that sends questions[currentIndex] once more.
HandleNextQuestionSame(c, q, currentIndex) ==
    /\ Alive
    /\ readPump[c] = "read"
    /\ budget >= 1
    /\ budget' = budget - 1
    /\ readPump' = [readPump EXCEPT ![c] = "handle"]
    /\ LET nextIndex == currentIndex + 1
           msg == IF nextIndex >= NumQuestions THEN MsgQuizEnd
                                               ELSE MsgQuestion(currentIndex, TRUE)
       IN tasks' = tasks \cup
            {[BcastTask(Id1, "HandleNextQuestion", q, <<msg>>)
                EXCEPT !.conn = c, !.idx = currentIndex]}
    /\ UNCHANGED <<hubVars, run, clientVars, writePump, panicked, removeReq, storeVars>>

\* Client.handleMessage, case "next_question" -> Service.HandleNextQuestion,
\* run by the readPump of c: quiz_end past the last question, else the next
\* question converted with ToDTO(true), broadcast to the room.  The index is
\* only compared with len(questions): questions[nextIndex] with a negative
\* nextIndex panics in the readPump goroutine, where nothing recovers.
IndexPanic == "panic: runtime error: index out of range"

HandleNextQuestion(c, q, currentIndex) ==
    /\ Alive
    /\ readPump[c] = "read"
    /\ budget >= 1
    /\ budget' = budget - 1
    /\ readPump' = [readPump EXCEPT ![c] = "handle"]
    /\ LET nextIndex == currentIndex + 1
       IN IF nextIndex < 0
          THEN /\ panicked' = IndexPanic
               /\ tasks' = tasks
          ELSE /\ panicked' = panicked
               /\ LET msg == IF nextIndex >= NumQuestions THEN MsgQuizEnd
                                                          ELSE MsgQuestion(nextIndex, TRUE)
                  IN tasks' = tasks \cup
                       {[BcastTask(Id1, "HandleNextQuestion", q, <<msg>>)
                           EXCEPT !.conn = c, !.idx = currentIndex]}
    /\ UNCHANGED <<hubVars, run, clientVars, writePump, removeReq, storeVars>>

\* What Service.ProcessAnswer returns to Handler.SubmitAnswer: 0 and no error
\* for the quiz's creator (lines 253-256), else the score of the answer.
ProcessAnswerScore(q, u, answer, timeSpent) ==
    IF u = CreatorID[q]
    THEN [score |-> 0, err |-> FALSE]
    ELSE [score |-> calculateScore(answer, Questions[0].correctAnswer, timeSpent),
          err |-> FALSE]

\* A ProcessAnswer without the test on the quiz's creator.
ProcessAnswerAnyone(q, u, answer, timeSpent) ==
    /\ Alive
    /\ budget >= 1
    /\ dbActive[q]
    /\ \A t \in tasks : t.kind # "StartQuiz"
    /\ budget' = budget - 1
    /\ LET question == Questions[0]
           score == calculateScore(answer, question.correctAnswer, timeSpent)
       IN /\ responses' = [responses EXCEPT ![q][u] = Append(@, score)]
          /\ tasks' = tasks \cup
               {[Task0 EXCEPT !.id = Id1, !.kind = "ProcessAnswer", !.pc = "getidx",
                              !.code = q, !.usr = u, !.act = starts[q]]}
    /\ UNCHANGED <<hubVars, run, clientVars, pumpVars, panicked, removeReq,
                   progress, dbActive, cacheQuiz, leaderboard, finals, starts>>

\* Handler.SubmitAnswer -> Service.ProcessAnswer, up to Repository.SaveResponse:
\* nothing for the quiz's creator, else the scored response is stored.
ProcessAnswer(q, u, answer, timeSpent) ==
    /\ Alive
    /\ budget >= 1
    /\ dbActive[q]
    /\ \A t \in tasks : t.kind # "StartQuiz"
    /\ budget' = budget - 1
    /\ IF u = CreatorID[q]
       THEN UNCHANGED <<responses, tasks>>
       ELSE LET question == Questions[0]
                score == calculateScore(answer, question.correctAnswer, timeSpent)
            IN /\ responses' = [responses EXCEPT ![q][u] = Append(@, score)]
               /\ tasks' = tasks \cup
                    {[Task0 EXCEPT !.id = Id1, !.kind = "ProcessAnswer", !.pc = "getidx",
                                   !.code = q, !.usr = u, !.act = starts[q]]}
    /\ UNCHANGED <<hubVars, run, clientVars, pumpVars, panicked, removeReq,
                   progress, dbActive, cacheQuiz, leaderboard, finals, starts>>

\* A ProcessAnswer that logs the error of Repository.SaveResponse and goes on
\* to advance the user.
ProcessAnswerSaveIgnored(q, u, answer, timeSpent) ==
    /\ Alive
    /\ budget >= 1
    /\ dbActive[q]
    /\ u # CreatorID[q]
    /\ budget' = budget - 1
    /\ tasks' = tasks \cup
         {[Task0 EXCEPT !.id = Id1, !.kind = "ProcessAnswer", !.pc = "getidx",
                        !.code = q, !.usr = u, !.act = starts[q]]}
    /\ UNCHANGED <<hubVars, run, clientVars, pumpVars, panicked, removeReq, storeVars>>

\* Service.ProcessAnswer when Repository.SaveResponse returns an error (lines
\* 270-272): it returns 0 and the error, and Handler.SubmitAnswer is left to
\* reply with it.
ProcessAnswerSaveError(q, u, answer, timeSpent) ==
    /\ Alive
    /\ budget >= 1
    /\ dbActive[q]
    /\ u # CreatorID[q]
    /\ budget' = budget - 1
    /\ tasks' = tasks \cup
         {[Task0 EXCEPT !.id = Id1, !.kind = "SubmitAnswer", !.pc = "error",
                        !.code = q, !.usr = u]}
    /\ UNCHANGED <<hubVars, run, clientVars, pumpVars, panicked, removeReq, storeVars>>

\* Handler.SubmitAnswer replies 500 with the error ProcessAnswer returned.
SubmitAnswerError(t) ==
    /\ Alive
    /\ t \in tasks /\ t.pc = "error"
    /\ tasks' = tasks \ {t}
    /\ UNCHANGED <<hubVars, run, clientVars, pumpVars, budget, panicked, removeReq, storeVars>>

\* Repository.GetUserQuestionIndex: the row's index; a missing row is created
\* with index 0.
ProcessAnswerGetIndex(t) ==
    /\ Alive
    /\ t \in tasks /\ t.pc = "getidx"
    /\ LET row == progress[t.code][t.usr]
           currentIndex == IF row = NoRow THEN 0 ELSE row
       IN /\ progress' = [progress EXCEPT ![t.code][t.usr] = currentIndex]
          /\ tasks' = (tasks \ {t}) \cup {[t EXCEPT !.pc = "setidx", !.idx = currentIndex]}
    /\ UNCHANGED <<hubVars, run, clientVars, pumpVars, budget, panicked, removeReq,
                   responses, dbActive, cacheQuiz, leaderboard, finals, starts>>

\* Repository.UpdateUserQuestionIndex with currentIndex + 1, then
\* go HandleNextQuestionForUser(user, code, newIndex), which sends the user's
\* next question, converted with ToDTO(false), or goes on to count the
\* finished players if newIndex is past the last question.
ProcessAnswerUpdateIndex(t) ==
    /\ Alive
    /\ t \in tasks /\ t.pc = "setidx"
    /\ LET newIndex == t.idx + 1
       IN /\ progress' = [progress EXCEPT ![t.code][t.usr] = newIndex]
          /\ tasks' = (tasks \ {t}) \cup
               {IF newIndex >= NumQuestions
                THEN [t EXCEPT !.kind = "HandleNextQuestionForUser", !.pc = "fincount",
                               !.idx = newIndex]
                ELSE [t EXCEPT !.kind = "HandleNextQuestionForUser", !.pc = "senduser",
                               !.idx = newIndex, !.msgs = <<MsgQuestion(newIndex, FALSE)>>]}
    /\ UNCHANGED <<hubVars, run, clientVars, pumpVars, budget, panicked, removeReq,
                   responses, dbActive, cacheQuiz, leaderboard, finals, starts>>

\* HandleNextQuestionForUser, line 328: GetFinishedPlayersCount
CountFinished(t) ==
    /\ Alive
    /\ t \in tasks /\ t.pc = "fincount"
    /\ tasks' = (tasks \ {t}) \cup
         {[t EXCEPT !.pc = "totcount", !.fin = GetFinishedPlayersCount(t.code, NumQuestions)]}
    /\ UNCHANGED <<hubVars, run, clientVars, pumpVars, budget, panicked, removeReq, storeVars>>

\* A HandleNextQuestionForUser that publishes the ranking whatever the counts.
CountParticipantsPublish(t) ==
    /\ Alive
    /\ t \in tasks /\ t.pc = "totcount"
    /\ tasks' = (tasks \ {t}) \cup
         {[t EXCEPT !.pc = "scores", !.tot = GetUniqueParticipantsForQuiz(t.code)]}
    /\ UNCHANGED <<hubVars, run, clientVars, pumpVars, budget, panicked, removeReq, storeVars>>

\* HandleNextQuestionForUser, lines 332-353: GetUniqueParticipantsForQuiz and
\* the decision between the final leaderboard and the waiting notice.
CountParticipants(t) ==
    /\ Alive
    /\ t \in tasks /\ t.pc = "totcount"
    /\ LET tot == GetUniqueParticipantsForQuiz(t.code)
       IN tasks' = (tasks \ {t}) \cup
            {IF t.fin >= tot
             THEN [t EXCEPT !.pc = "scores", !.tot = tot]
             ELSE [t EXCEPT !.pc = "senduser", !.tot = tot, !.msgs = <<MsgWait>>]}
    /\ UNCHANGED <<hubVars, run, clientVars, pumpVars, budget, panicked, removeReq, storeVars>>

\* Service.updateLeaderboard: Repository.GetLeaderboard, then
\* RedisCache.SetLeaderboard, which deletes the key and then adds the scores.
UpdateLeaderboardRead(t) ==
    /\ Alive
    /\ t \in tasks /\ t.pc = "scores"
    /\ tasks' = (tasks \ {t}) \cup {[t EXCEPT !.pc = "del", !.board = GetLeaderboard(t.code)]}
    /\ UNCHANGED <<hubVars, run, clientVars, pumpVars, budget, panicked, removeReq, storeVars>>

SetLeaderboardDel(t) ==
    /\ Alive
    /\ t \in tasks /\ t.pc = "del"
    /\ leaderboard' = [leaderboard EXCEPT ![t.code] = <<>>]
    /\ tasks' = (tasks \ {t}) \cup {[t EXCEPT !.pc = "zadd"]}
    /\ UNCHANGED <<hubVars, run, clientVars, pumpVars, budget, panicked, removeReq,
                   progress, responses, dbActive, cacheQuiz, finals, starts>>

SetLeaderboardAdd(t) ==
    /\ Alive
    /\ t \in tasks /\ t.pc = "zadd"
    /\ leaderboard' = [leaderboard EXCEPT ![t.code] =
                         [u \in DOMAIN @ \cup DOMAIN t.board |->
                            IF u \in DOMAIN t.board THEN t.board[u] ELSE @[u]]]
    /\ tasks' = (tasks \ {t}) \cup {[t EXCEPT !.pc = "final", !.board = <<>>]}
    /\ UNCHANGED <<hubVars, run, clientVars, pumpVars, budget, panicked, removeReq,
                   progress, responses, dbActive, cacheQuiz, finals, starts>>

\* HandleNextQuestionForUser, lines 343-347: the cached ranking is read and
\* broadcast as final_leaderboard.  finals counts the broadcasts made for
\* answers given in the current activation.
BroadcastFinal(t) ==
    /\ Alive
    /\ t \in tasks /\ t.pc = "final"
    /\ finals' = [finals EXCEPT ![t.code] = IF t.act = starts[t.code] THEN @ + 1 ELSE @]
    /\ tasks' = (tasks \ {t}) \cup
                  {[t EXCEPT !.pc = "read", !.msgs = <<MsgFinal(leaderboard[t.code])>>]}
    /\ UNCHANGED <<hubVars, run, clientVars, pumpVars, budget, panicked, removeReq,
                   progress, responses, dbActive, cacheQuiz, leaderboard, starts>>

\* A SendMessageToUser that puts the message on every queue of the room that
\* has space.
SendMessageToUserRoom(t) ==
    /\ Alive
    /\ t \in tasks /\ t.pc = "senduser"
    /\ send' = [c \in Conns |-> IF c \in Room(t.code) /\ CanQueue(c)
                                THEN Append(send[c], Item(t)) ELSE send[c]]
    /\ tasks' = tasks \ {t}
    /\ UNCHANGED <<hubVars, run, quizCode, user, isHost, closed, pumpVars, budget,
                   panicked, removeReq, storeVars>>

\* Hub.SendMessageToUser: nothing without a participant connection for the
\* user; else the message is queued if there is space, the client is handed
\* to a hub loop if the queue is full, and the send panics, with nothing to
\* recover it, if the queue was closed.
SendMessageToUserWithin(t, cap) ==
    /\ Alive
    /\ t \in tasks /\ t.pc = "senduser"
    /\ LET c == clientsByUser[t.usr]
       IN IF c = Nil
          THEN /\ tasks' = tasks \ {t}
               /\ UNCHANGED <<send, panicked>>
          ELSE IF closed[c]
          THEN /\ panicked' = "send on closed channel"
               /\ UNCHANGED <<send, tasks>>
          ELSE IF Len(send[c]) < cap
          THEN /\ send' = [send EXCEPT ![c] = Append(@, Item(t))]
               /\ tasks' = tasks \ {t}
               /\ panicked' = panicked
          ELSE /\ tasks' = (tasks \ {t}) \cup {[t EXCEPT !.pc = "unregisterUser", !.cur = c]}
               /\ UNCHANGED <<send, panicked>>
    /\ UNCHANGED <<hubVars, run, quizCode, user, isHost, closed, pumpVars, budget,
                   removeReq, storeVars>>

SendMessageToUser(t) == SendMessageToUserWithin(t, SendCap)

\* The goroutines that process an answer.
NextAnswer ==
    \/ \E t \in tasks : ProcessAnswerGetIndex(t)
    \/ \E t \in tasks : ProcessAnswerUpdateIndex(t)
    \/ \E t \in tasks : CountFinished(t)
    \/ \E t \in tasks : CountParticipants(t)
    \/ \E t \in tasks : UpdateLeaderboardRead(t)
    \/ \E t \in tasks : SetLeaderboardDel(t)
    \/ \E t \in tasks : SetLeaderboardAdd(t)
    \/ \E t \in tasks : BroadcastFinal(t)
    \/ \E t \in tasks : SendMessageToUser(t)

\* The goroutines of the quiz service.
NextService ==
    \/ \E t \in tasks : StartQuizActivate(t)
    \/ NextAnswer

----------------------------------------------------------------------------
\* The goroutines the hub itself starts and its two Run loops.
NextInternal ==
    \/ \E c \in Conns : writePumpWrite(c)
    \/ \E t \in tasks : BroadcastToQuiz(t)
    \/ \E t \in tasks : BroadcastToQuizCopy(t)
    \/ \E t \in tasks : BroadcastToQuizResume(t)
    \/ \E t \in tasks : BroadcastToQuizReturn(t)
    \/ \E r \in Runs, t \in tasks : RunReceiveFromTask(r, t)
    \/ \E r \in Runs : RunUnregister(r)

\* One connection from its websocket upgrade to its unregistration.
NextHub ==
    \/ \E c \in HubConns, q \in Codes : RegisterClient(c, q)
    \/ \E c \in HubConns, u \in Users, ok \in BOOLEAN : handleMessageJoin(c, u, ok)
    \/ \E c \in HubConns : readPumpError(c)
    \/ \E r \in Runs, c \in HubConns : RunReceiveFromPump(r, c)
    \/ \E c \in HubConns : writePumpReturn(c)
    \/ \E t \in tasks : SendParticipantList(t)
    \/ NextInternal

SpecHub == Init /\ [][NextHub]_vars

\* The same with callers of the exported UnregisterClient.
NextApi ==
    \/ NextHub
    \/ \E c \in HubConns : UnregisterClient(c)
    \/ \E t \in tasks : RemoveParticipant(t)

SpecApi == Init /\ [][NextApi]_vars

----------------------------------------------------------------------------
\* A session in progress: the host h on c1 and the participant u1 on c2 have
\* connected and announced themselves and the announcements are over.
Session ==
    /\ clients = {"c1", "c2"}
    /\ quizRooms = [q \in Codes |-> {"c1", "c2"}]
    /\ participants = [q \in Codes |-> 0]
    /\ clientsByUser = [u \in Users |-> IF u = "u1" THEN "c2" ELSE Nil]
    /\ hosts = [u \in Users |-> IF u = "h" THEN "c1" ELSE Nil]
    /\ run = [r \in Runs |-> Idle]
    /\ quizCode = [c \in Conns |-> "Q1"]
    /\ user = [c \in Conns |-> IF c = "c1" THEN "h" ELSE "u1"]
    /\ isHost = [c \in Conns |-> c = "c1"]
    /\ closed = [c \in Conns |-> FALSE]
    /\ readPump = [c \in Conns |-> "read"]
    /\ writePump = [c \in Conns |-> "run"]
    /\ tasks = {}
    /\ panicked = ""
    /\ removeReq = [c \in Conns |-> 0]
    /\ EmptyStore

\* each queue is either drained or still full of count announcements
FullQueue == [i \in 1..SendCap |-> MsgUpdate(0)]

InitRoom ==
    /\ Session
    /\ Pending
    /\ send \in [Conns -> {<<>>, FullQueue}]
    /\ budget = MaxBroadcasts

\* Broadcasts to the room of a session in progress.
NextBcast ==
    \/ \E c \in Conns, q \in Codes : handleMessageAnswer(c, q, user[c])
    \/ \E c \in Conns : readPumpError(c)
    \/ \E r \in Runs, c \in Conns : RunReceiveFromPump(r, c)
    \/ NextInternal

SpecBcast == InitRoom /\ [][NextBcast]_vars

----------------------------------------------------------------------------
\* The REST interface of the quiz service while nobody is connected: the
\* host starts and restarts the session, the users submit answers.
MaxAnswers == 3

InitStore ==
    /\ Started
    /\ budget = MaxAnswers + 1

NextStore ==
    \/ \E q \in Codes : StartQuiz(q, CreatorID[q])
    \/ \E q \in Codes, u \in Users, a \in Answers, ts \in TimesSpent : ProcessAnswer(q, u, a, ts)
    \/ NextService
    \/ \E t \in tasks : BroadcastToQuiz(t)

SpecStore == InitStore /\ [][NextStore]_vars

\* The quiz service with the session's host and a participant connected,
\* after the host started the session and the first question was written out.
InitQuiz ==
    /\ Session
    /\ Active
    /\ send = [c \in Conns |-> <<>>]
    /\ budget = MaxRequests

NextQuiz ==
    \/ \E q \in Codes : StartQuiz(q, CreatorID[q])
    \/ \E q \in Codes, u \in Users, a \in Answers, ts \in TimesSpent : ProcessAnswer(q, u, a, ts)
    \/ \E c \in Conns, q \in Codes, i \in 0..(NumQuestions - 1) :
          isHost[c] /\ HandleNextQuestion(c, q, i)
    \/ NextService
    \/ NextInternal

SpecQuiz == InitQuiz /\ [][NextQuiz]_vars

\* The quiz service while a participant of a session in progress leaves: the
\* connected participants submit answers, their readPumps meet transport errors.
NextSend ==
    \/ \E q \in Codes, c \in Conns, a \in Answers, ts \in TimesSpent :
          ~isHost[c] /\ ProcessAnswer(q, user[c], a, ts)
    \/ \E c \in Conns : ~isHost[c] /\ readPumpError(c)
    \/ \E r \in Runs, c \in Conns : RunReceiveFromPump(r, c)
    \/ NextAnswer
    \/ NextInternal

\* answers submitted while the participant leaves
MaxSends == 2

InitSend ==
    /\ Session
    /\ Active
    /\ send = [c \in Conns |-> <<>>]
    /\ budget = MaxSends

SpecSend == InitSend /\ [][NextSend]_vars

\* identity announcements made after the first connection's
MaxJoins == 1

\* A participant has connected and announced itself as u1 on c1, and a second
\* connection c2 has been registered for the same session (RegisterClient
\* counted c1); c2 is about to announce its identity.
Duplicate ==
    /\ clients = {"c1", "c2"}
    /\ quizRooms = [q \in Codes |-> {"c1", "c2"}]
    /\ participants = [q \in Codes |-> 1]
    /\ clientsByUser = [u \in Users |-> IF u = "u1" THEN "c1" ELSE Nil]
    /\ hosts = [u \in Users |-> Nil]
    /\ run = [r \in Runs |-> Idle]
    /\ quizCode = [c \in Conns |-> "Q1"]
    /\ user = [c \in Conns |-> IF c = "c1" THEN "u1" ELSE Nil]
    /\ isHost = [c \in Conns |-> FALSE]
    /\ send = [c \in Conns |-> <<>>]
    /\ closed = [c \in Conns |-> FALSE]
    /\ readPump = [c \in Conns |-> "read"]
    /\ writePump = [c \in Conns |-> "run"]
    /\ tasks = {}
    /\ panicked = ""
    /\ removeReq = [c \in Conns |-> 0]
    /\ EmptyStore
    /\ Pending

InitDup ==
    /\ Duplicate
    /\ budget = MaxJoins

NextDup ==
    \/ \E c \in Conns, u \in Users, ok \in BOOLEAN :
          user[c] = Nil /\ handleMessageJoin(c, u, ok)
    \/ \E t \in tasks : SendParticipantList(t)
    \/ NextInternal

SpecDup == InitDup /\ [][NextDup]_vars

\* The two pumps of the connections of a session in progress, up to their
\* end: messages are read only while the transport is up.
NextPump ==
    \/ \E c \in Conns, q \in Codes :
          writePump[c] = "run" /\ handleMessageAnswer(c, q, user[c])
    \/ \E c \in Conns : readPumpError(c)
    \/ \E c \in Conns : writePumpError(c)
    \/ \E c \in Conns : writePumpReturn(c)
    \/ \E r \in Runs, c \in Conns : RunReceiveFromPump(r, c)
    \/ NextInternal

\* Every runnable goroutine is scheduled: the hub loops and the broadcasts go
\* on, a readPump waiting on h.unregister is received from, and a readPump
\* whose transport was closed by its writePump sees the read fail.
FairPump ==
    /\ WF_vars(NextInternal)
    /\ \A c \in Conns : WF_vars(\E r \in Runs : RunReceiveFromPump(r, c))
    /\ \A c \in Conns : WF_vars(writePump[c] = "exit" /\ readPumpError(c))
    /\ \A c \in Conns : WF_vars(writePumpReturn(c))

SpecPump == InitRoom /\ [][NextPump]_vars /\ FairPump

\* The room of a session in progress whose clients also send messages that
\* are not well formed.
NextMsg ==
    \/ \E c \in Conns, fault \in Faults : handleMessageMalformed(c, fault)
    \/ NextBcast

SpecMsg == InitRoom /\ [][NextMsg]_vars

\* The start requests of a session whose host and one participant are
\* connected: any authenticated user may call the start route, the
\* participant answers in between.
MaxStarts == 3

InitStart ==
    /\ Session
    /\ Pending
    /\ send = [c \in Conns |-> <<>>]
    /\ budget = MaxStarts

NextStart ==
    \/ \E q \in Codes, c \in Conns : Paced /\ StartQuiz(q, user[c])
    \/ \E q \in Codes, c \in Conns, a \in Answers, ts \in TimesSpent :
          ~isHost[c] /\ ProcessAnswer(q, user[c], a, ts)
    \/ NextService
    \/ NextInternal

SpecStart == InitStart /\ [][NextStart]_vars

\* The answers of one participant, and of the host, with the elapsed times a
\* client can put into the request: 0, 5 and 150 seconds, and
\* 1844674407370955161 seconds, which is (2^64 - 6) / 10.
ScoreTimes == {GoInt(0), GoInt(5), GoInt(150), <<39321, 39321, 39321, 6553>>}

NextScore ==
    \/ \E q \in Codes : StartQuiz(q, CreatorID[q])
    \/ \E q \in Codes, u \in {"h", "u1"}, a \in Answers, ts \in ScoreTimes :
          ProcessAnswer(q, u, a, ts)
    \/ NextService
    \/ \E t \in tasks : BroadcastToQuiz(t)

SpecScore == InitStore /\ [][NextScore]_vars

\* One activation of a session up to its completion: the participant u1 is
\* alone in the room (the host is not connected), u1 and u2 submit answers,
\* several at a time, and nobody restarts the session.
InitFinish ==
    /\ clients = {"c2"}
    /\ quizRooms = [q \in Codes |-> {"c2"}]
    /\ participants = [q \in Codes |-> 0]
    /\ clientsByUser = [u \in Users |-> IF u = "u1" THEN "c2" ELSE Nil]
    /\ hosts = [u \in Users |-> Nil]
    /\ run = [r \in Runs |-> Idle]
    /\ quizCode = [c \in Conns |-> IF c = "c2" THEN "Q1" ELSE Nil]
    /\ user = [c \in Conns |-> IF c = "c2" THEN "u1" ELSE Nil]
    /\ isHost = [c \in Conns |-> FALSE]
    /\ send = [c \in Conns |-> <<>>]
    /\ closed = [c \in Conns |-> FALSE]
    /\ readPump = [c \in Conns |-> IF c = "c2" THEN "read" ELSE "none"]
    /\ writePump = [c \in Conns |-> IF c = "c2" THEN "run" ELSE "none"]
    /\ tasks = {}
    /\ panicked = ""
    /\ removeReq = [c \in Conns |-> 0]
    /\ EmptyStore
    /\ Active
    /\ budget = MaxAnswers

NextFinish ==
    \/ \E q \in Codes, u \in Users, a \in Answers, ts \in TimesSpent :
          u # CreatorID[q] /\ ProcessAnswer(q, u, a, ts)
    \/ NextAnswer
    \/ NextInternal

SpecFinish == InitFinish /\ [][NextFinish]_vars

\* The outbound queues of a session in progress when they hold several
\* messages: send channels of capacity OrderCap, both clients reporting
\* answers, each report broadcast to the room by the sender's readPump.
OrderCap == 2
MaxOrder == 3

InitOrder ==
    /\ Session
    /\ Pending
    /\ send = [c \in Conns |-> <<>>]
    /\ budget = MaxOrder

NextOrder ==
    \/ \E c \in Conns, q \in Codes : handleMessageAnswer(c, q, user[c])
    \/ \E c \in Conns : writePumpWrite(c)
    \/ \E t \in tasks : BroadcastToQuiz(t)
    \/ \E t \in tasks : BroadcastToQuizCopyWithin(t, OrderCap)
    \/ \E t \in tasks : BroadcastToQuizResumeWithin(t, OrderCap)
    \/ \E t \in tasks : BroadcastToQuizReturn(t)
    \/ \E r \in Runs, t \in tasks : RunReceiveFromTask(r, t)
    \/ \E r \in Runs : RunUnregister(r)

SpecOrder == InitOrder /\ [][NextOrder]_vars

\* A participant attached to another session: the host h of Q1 is connected
\* to Q1's room on c1, and u1 has connected to the room of the session
\* OtherCode on c2 and announced itself there; Q1 is active and u1 submits
\* answers for it over the REST route.
OtherCode == "Q2"

InitCross ==
    /\ clients = {"c1", "c2"}
    /\ quizRooms = [q \in Codes \cup {OtherCode} |->
                       IF q = OtherCode THEN {"c2"} ELSE {"c1"}]
    /\ participants = [q \in Codes \cup {OtherCode} |-> 0]
    /\ clientsByUser = [u \in Users |-> IF u = "u1" THEN "c2" ELSE Nil]
    /\ hosts = [u \in Users |-> IF u = "h" THEN "c1" ELSE Nil]
    /\ run = [r \in Runs |-> Idle]
    /\ quizCode = [c \in Conns |-> IF c = "c2" THEN OtherCode ELSE "Q1"]
    /\ user = [c \in Conns |-> IF c = "c1" THEN "h" ELSE "u1"]
    /\ isHost = [c \in Conns |-> c = "c1"]
    /\ send = [c \in Conns |-> <<>>]
    /\ closed = [c \in Conns |-> FALSE]
    /\ readPump = [c \in Conns |-> "read"]
    /\ writePump = [c \in Conns |-> "run"]
    /\ tasks = {}
    /\ panicked = ""
    /\ removeReq = [c \in Conns |-> 0]
    /\ EmptyStore
    /\ Active
    /\ budget = MaxAnswers

NextCross ==
    \/ \E q \in Codes, a \in Answers, ts \in TimesSpent : ProcessAnswer(q, "u1", a, ts)
    \/ NextAnswer
    \/ NextInternal

SpecCross == InitCross /\ [][NextCross]_vars

\* Answers of the connected participant u1 in quick succession, the send
\* channel holding up to OrderCap messages.
NextRapid ==
    \/ \E q \in Codes, a \in Answers, ts \in TimesSpent : ProcessAnswer(q, "u1", a, ts)
    \/ \E t \in tasks : ProcessAnswerGetIndex(t)
    \/ \E t \in tasks : ProcessAnswerUpdateIndex(t)
    \/ \E t \in tasks : CountFinished(t)
    \/ \E t \in tasks : CountParticipants(t)
    \/ \E t \in tasks : UpdateLeaderboardRead(t)
    \/ \E t \in tasks : SetLeaderboardDel(t)
    \/ \E t \in tasks : SetLeaderboardAdd(t)
    \/ \E t \in tasks : BroadcastFinal(t)
    \/ \E t \in tasks : SendMessageToUserWithin(t, OrderCap)
    \/ \E c \in Conns : writePumpWrite(c)
    \/ \E t \in tasks : BroadcastToQuiz(t)
    \/ \E t \in tasks : BroadcastToQuizCopyWithin(t, OrderCap)
    \/ \E t \in tasks : BroadcastToQuizResumeWithin(t, OrderCap)
    \/ \E t \in tasks : BroadcastToQuizReturn(t)
    \/ \E r \in Runs, t \in tasks : RunReceiveFromTask(r, t)
    \/ \E r \in Runs : RunUnregister(r)

SpecRapid == InitFinish /\ [][NextRapid]_vars

\* Two connections of one user: after c1 announced itself as u1, c2 announces
\* itself, and callers of the exported UnregisterClient unregister either.
InitOlder ==
    /\ Duplicate
    /\ budget = MaxJoins + 1

NextOlder ==
    \/ NextDup
    \/ \E c \in Conns : UnregisterClient(c)
    \/ \E t \in tasks : RemoveParticipant(t)

SpecOlder == InitOlder /\ [][NextOlder]_vars

\* The same with the elapsed times 5 and -5: time_spent is a signed integer
\* of the request body and is not validated.
SignedTimes == {GoInt(5), Sub(GoInt(0), GoInt(5))}

NextSigned ==
    \/ \E q \in Codes : StartQuiz(q, CreatorID[q])
    \/ \E q \in Codes, u \in {"h", "u1"}, a \in Answers, ts \in SignedTimes :
          ProcessAnswer(q, u, a, ts)
    \/ NextService
    \/ \E t \in tasks : BroadcastToQuiz(t)

SpecSigned == InitStore /\ [][NextSigned]_vars

\* The host-driven advance with every index a client can put into
\* next_question: currentIndex is converted from the message's number and
\* is not validated.
CurrentIndexes == (0 - 2) .. (NumQuestions - 1)

NextAdvance ==
    \/ \E c \in Conns, q \in Codes, i \in CurrentIndexes :
          isHost[c] /\ HandleNextQuestion(c, q, i)
    \/ NextInternal

SpecAdvance == InitQuiz /\ [][NextAdvance]_vars

\* Lookups of a session by its code between its starts, the cached copy
\* expiring now and then.
NextLookup ==
    \/ \E q \in Codes : StartQuiz(q, CreatorID[q])
    \/ \E t \in tasks : StartQuizActivate(t)
    \/ \E t \in tasks : BroadcastToQuiz(t)
    \/ \E q \in Codes : GetQuiz(q)
    \/ \E q \in Codes : Expire(q)

SpecLookup == InitStore /\ [][NextLookup]_vars

\* The answers of the connected participant u1 while the store fails to
\* save some of them.
NextSave ==
    \/ \E q \in Codes, a \in Answers, ts \in TimesSpent : ProcessAnswer(q, "u1", a, ts)
    \/ \E q \in Codes, a \in Answers, ts \in TimesSpent :
          ProcessAnswerSaveError(q, "u1", a, ts)
    \/ \E t \in tasks : SubmitAnswerError(t)
    \/ NextAnswer
    \/ NextInternal

SpecSave == InitFinish /\ [][NextSave]_vars

\* Two sessions: c2 is attached to the room of OtherCode; c1 is attached to
\* the room of Q1 or to that of OtherCode and leaves by a transport error, and
\* a caller of the exported UnregisterClient unregisters c2.
InitRooms ==
    /\ clients = {"c2"}
    /\ quizRooms = [q \in {OtherCode} |-> {"c2"}]
    /\ participants = [q \in Codes \cup {OtherCode} |-> 0]
    /\ clientsByUser = [u \in Users |-> Nil]
    /\ hosts = [u \in Users |-> Nil]
    /\ run = [r \in Runs |-> Idle]
    /\ quizCode = [c \in Conns |-> IF c = "c2" THEN OtherCode ELSE Nil]
    /\ user = [c \in Conns |-> Nil]
    /\ isHost = [c \in Conns |-> FALSE]
    /\ send = [c \in Conns |-> <<>>]
    /\ closed = [c \in Conns |-> FALSE]
    /\ readPump = [c \in Conns |-> IF c = "c2" THEN "read" ELSE "none"]
    /\ writePump = [c \in Conns |-> IF c = "c2" THEN "run" ELSE "none"]
    /\ tasks = {}
    /\ panicked = ""
    /\ removeReq = [c \in Conns |-> 0]
    /\ EmptyStore
    /\ Pending
    /\ budget = MaxJoins

NextRooms ==
    \/ \E c \in HubConns, q \in Codes \cup {OtherCode} : RegisterClient(c, q)
    \/ \E c \in HubConns : Paced /\ readPumpError(c)
    \/ \E r \in Runs, c \in HubConns : RunReceiveFromPump(r, c)
    \/ \E c \in Conns \ HubConns : UnregisterClient(c)
    \/ \E t \in tasks : SendParticipantList(t)
    \/ NextInternal

SpecRooms == InitRooms /\ [][NextRooms]_vars

----------------------------------------------------------------------------
\* Properties of the hub.

NonHosts(q) == {c \in Room(q) : ~isHost[c]}
Announced(q) == {c \in NonHosts(q) : user[c] # Nil}
Quiet == tasks = {} /\ \A r \in Runs : run[r] = Idle

\* C5: whenever the hub is at rest, the participant count of a session equals
\* the number of non-host connections in its room; read generously, it is
\* at least the announced non-host connections and at most all non-host ones.
C5_CountMatchesRoom ==
    Quiet => \A q \in Codes :
               /\ Cardinality(Announced(q)) <= participants[q]
               /\ participants[q] <= Cardinality(NonHosts(q))

\* C5 arises: the hub is at rest and a session's count is below zero.
C5_NegativeCount == Quiet /\ \E q \in Codes : participants[q] < 0

\* C6: a connection is never closed a second time and no connection has a
\* second store-removal request issued for it, however often and through
\* whichever path it is unregistered.
C6_UnregisterIdempotent ==
    /\ panicked # "close of closed channel"
    /\ \A c \in Conns : removeReq[c] <= 1

\* C6 arises: a connection that a hub loop has unregistered is unregistered
\* again by the direct path, which closes its queue a second time.
C6_ClosedTwice ==
    \E c \in Conns : readPump[c] = "exit" /\ panicked = "close of closed channel"

Unregistered(c) == closed[c] /\ c \notin Room(quizCode[c])

\* what a broadcast recorded of a connection whose queue it found full
FoundFull(o) == ~o.closed /\ o.len = SendCap /\ o.sent = 0

\* C7: a broadcast that found a connection's queue full is never left inside
\* its loop: as long as it has not returned the process is running, so the
\* hand-over to a hub loop and the rest of the loop can take place whether or
\* not the queue is drained; and once it has returned, the connection is out
\* of its room with its queue closed, or a hub loop holds it to make it so.
C7_FullQueueDropped ==
    \A t \in tasks :
        /\ (t.pc \in {"unregister", "loop"} /\ \E o \in t.seen : FoundFull(o)) => Alive
        /\ t.pc = "ret" =>
             \A o \in t.seen : FoundFull(o) =>
                 Unregistered(o.c) \/ \E r \in Runs : run[r] = o.c

\* C7 arises: a broadcast found a queue full and waits to hand the connection
\* to a hub loop.
C7_HandingOver ==
    \E t \in tasks : t.pc = "unregister" /\ \E o \in t.seen : o.c = t.cur /\ FoundFull(o)

\* C8: a broadcast that is iterating the room is not cut short, whatever
\* happens to the room's connections meanwhile; and when it returns, it has
\* visited every connection of its copy of the room exactly once, and it put
\* exactly one copy on the queue of each one it found open with space and
\* none on the others.
C8_OneCopyEach ==
    \A t \in tasks :
        /\ t.pc = "copy" => Alive
        /\ t.pc = "ret" =>
             \A c \in t.snap :
                 /\ Cardinality({o \in t.seen : o.c = c}) = 1
                 /\ \A o \in t.seen : o.c = c =>
                       o.sent = (IF ~o.closed /\ o.len < SendCap THEN 1 ELSE 0)

\* C8 arises: a hub loop unregisters a connection of the room that a
\* broadcast is iterating, and the runtime stops the process.
C8_CutShort ==
    /\ panicked = Fatal
    /\ \E t \in tasks : t.pc = "copy" /\ \E r \in Runs : run[r] \in Room(t.code)

\* C9: a connection whose queue has been closed by an unregistration is in no
\* room, and neither identity map still points at it.
C9_UnregisteredEverywhere ==
    \A c \in Conns : closed[c] =>
        /\ c \notin Room(quizCode[c])
        /\ \A u \in Users : clientsByUser[u] # c /\ hosts[u] # c

\* C9 arises: a participant announced itself, its readPump ended and the hub
\* loop unregistered it, and the participant map still points at it.
C9_StaleIdentity ==
    \E c \in Conns :
        /\ closed[c] /\ readPump[c] = "exit" /\ c \notin clients
        /\ user[c] # Nil /\ clientsByUser[user[c]] = c

\* C10: the step that unregisters a connection (closes its queue) issues a
\* store-removal request exactly when the connection has announced a user and
\* is not the host's.
C10_RemovalRequested ==
    [][\A c \in Conns : (closed'[c] /\ ~closed[c]) =>
          ((removeReq'[c] = removeReq[c] + 1) <=> (user[c] # Nil /\ ~isHost[c]))]_vars

\* C10 arises: a participant that announced itself was unregistered by the
\* hub loop after its readPump ended, and no removal was requested for it.
C10_NoRemoval ==
    \E c \in Conns :
        /\ closed[c] /\ readPump[c] = "exit"
        /\ user[c] # Nil /\ user[c] # CreatorID[quizCode[c]] /\ ~isHost[c]
        /\ removeReq[c] = 0

----------------------------------------------------------------------------
\* Properties of the quiz service.

\* C1: in one activation of a session, at most one final_leaderboard is
\* broadcast for the answers given in that activation.
C1_OneFinalPerActivation == \A q \in Codes : finals[q] <= 1

\* C1 arises: the final leaderboard of the activation has been broadcast and
\* another completion check of the same activation is about to broadcast it.
C1_SecondFinalDue ==
    \E q \in Codes : finals[q] = 1 /\ \E t \in tasks :
        t.pc = "final" /\ t.code = q /\ t.act = starts[q]

\* the step is a session start resetting the progress rows
IsReset == \E t \in tasks' : t \notin tasks /\ t.kind = "StartQuiz" /\ t.pc = "activate"

\* C2: no step other than the reset made by a session start lowers a user's
\* next index.
C2_IndexNeverDecreases ==
    [][\A q \in Codes, u \in Users : progress'[q][u] < progress[q][u] => IsReset]_vars

\* C2 arises: two answers of one user have both read the index and neither
\* has written it back.
C2_TwoInFlight ==
    \E t1, t2 \in tasks :
        /\ t1.id # t2.id /\ t1.usr = t2.usr /\ t1.code = t2.code
        /\ t1.pc = "setidx" /\ t2.pc = "setidx"

\* C3: in the step in which a start marks the session active, every progress
\* row of the session holds 0 (no answer begins to be processed while a start
\* is under way; those begun before may still be).
C3_ZeroAtActivation ==
    [][\A q \in Codes : starts'[q] # starts[q] =>
          \A u \in Users : progress'[q][u] \in {NoRow, 0}]_vars

\* C3 arises: a start has reset the progress rows and has not yet marked the
\* session active, while an answer submitted before it is about to write.
C3_AnswerDuringStart ==
    \E t1, t2 \in tasks :
        /\ t1.kind = "StartQuiz" /\ t1.pc = "activate"
        /\ t2.pc = "setidx" /\ t2.code = t1.code

\* C4: no question waiting on the queue of a connection that is not the
\* host's carries the correct answer.
C4_MarkerOnlyForHost ==
    \A c \in Conns : ~isHost[c] =>
        \A i \in 1..Len(send[c]) :
            send[c][i].type = "question" => send[c][i].question.correctAnswer = ""

\* C4 arises: a question is waiting on the queue of a participant's connection.
C4_QuestionForParticipant ==
    \E c \in Conns : ~isHost[c] /\ \E i \in 1..Len(send[c]) : send[c][i].type = "question"

----------------------------------------------------------------------------
\* Properties of targeted sends and of identity announcements.

\* user u has a registered connection that announced it as a participant
Registered(u) == \E c \in clients : user[c] = u /\ ~isHost[c]

\* C11: a targeted send to a user without a registered participant connection
\* changes no queue and no hub state, and does not end in a send on a closed
\* queue.
C11_NoTargetNoEffect ==
    [][\A t \in tasks : (t.pc = "senduser" /\ ~Registered(t.usr)) =>
          /\ panicked' # "send on closed channel"
          /\ t \notin tasks' => (send' = send /\ closed' = closed /\ hubVars' = hubVars)]_vars

\* C11 arises: a targeted send is due for a user whose connection was
\* unregistered earlier.
C11_SendAfterUnregister ==
    \E t \in tasks : t.pc = "senduser" /\ ~Registered(t.usr) /\
        \E c \in Conns : user[c] = t.usr /\ closed[c] /\ c \notin clients

\* connection c announced a user that connection d of the same session
\* announced after it: the identity map of that user now points at d
Superseded(c, d) ==
    /\ c # d /\ user[c] # Nil /\ user[c] = user[d]
    /\ quizCode[c] = quizCode[d]
    /\ (clientsByUser[user[d]] = d \/ hosts[user[d]] = d)

\* C12: once the announcements of a second connection for the same user have
\* been dealt with (the hub is at rest), the earlier connection is out of the
\* room and its queue is closed.
C12_EarlierDropped ==
    Quiet => \A c, d \in Conns : Superseded(c, d) => Unregistered(c)

\* C12 arises: the hub is at rest after a second connection announced the
\* identity of a connected one.
C12_SameUserTwice ==
    Quiet /\ \E c, d \in Conns : Superseded(c, d) /\ d \in clients

\* C13: while a broadcast iterates a room's member set, no step changes the
\* membership of that room, and the runtime never meets a write during an
\* iteration.
C13_MembershipSerialized ==
    [][\A q \in Codes : Iterated(q) => (Room(q)' = Room(q) /\ panicked' # Fatal)]_vars

\* C13 arises: a broadcast is iterating a room while a hub loop holds a
\* connection of that room to delete it from the room.
C13_IterationMeetsWriter ==
    \E q \in Codes : Iterated(q) /\ \E r \in Runs : run[r] \in Room(q) /\ run[r] \in clients

\* a pump of connection c has come to its end
PumpEnded(c) == readPump[c] \in {"unregister", "exit"} \/ writePump[c] = "exit"

\* C14: a connection one of whose pumps has ended is eventually out of its
\* room with its queue and shutdown signal closed, and no queue is ever
\* closed a second time.
C14_EndedThenUnregistered ==
    /\ \A c \in Conns : PumpEnded(c) ~> Unregistered(c)
    /\ [](panicked # "close of closed channel")

\* C14 arises: a broadcast has found a connection's queue full and handed it
\* to one hub loop while that connection's readPump, ended, waits to hand it
\* to the other.
C14_BothRequested ==
    \E c \in Conns, r \in Runs :
        run[r] = c /\ readPump[c] = "unregister" /\ ~closed[c]

\* both pumps of connection c are over: each has returned, or the process
\* and every goroutine with it has been stopped
LoopsEnded(c) ==
    \/ readPump[c] = "exit" /\ writePump[c] = "exit"
    \/ ~Alive

\* C15: once a connection is unregistered its readPump and its writePump
\* both come to an end: none stays blocked on c.send, c.done or h.unregister.
C15_UnregisteredThenEnded ==
    \A c \in Conns : Unregistered(c) ~> LoopsEnded(c)

\* C15 arises: the connection was unregistered for a full queue; its
\* writePump returned on the closed queue, and its readPump, ended by the
\* closed transport, waits for a hub loop to take it from h.unregister.
C15_BlockedOnUnregister ==
    \E c \in Conns :
        /\ Unregistered(c) /\ Alive
        /\ readPump[c] = "unregister" /\ writePump[c] = "exit"

\* C16: a message that is not well formed is discarded: handling it stops
\* nothing and changes neither the hub nor any connection nor the session.
C16_MalformedDiscarded ==
    [][\A c \in Conns, fault \in Faults :
          handleMessageMalformed(c, fault) =>
              /\ panicked' = panicked
              /\ hubVars' = hubVars /\ clientVars' = clientVars
              /\ pumpVars' = pumpVars /\ storeVars' = storeVars]_vars

\* C16 arises: a message of a known type with a field missing has been
\* handled on a connection that was registered and open.
C16_FieldMissing ==
    /\ panicked = ConversionPanic
    /\ \E c \in clients : ~closed[c] /\ readPump[c] = "read"

\* C17: whatever the interleaving of broadcasts, targeted sends and
\* unregistrations, nothing stops the process: a send on a queue closed in
\* the meantime is recovered, in SendMessageToUser as in BroadcastToQuiz.
C17_NoProcessFailure == panicked = ""

\* C17 arises: a targeted send is about to be made to a connection that was
\* unregistered, and its queue closed, after the answer was accepted.
C17_TargetClosed ==
    /\ Alive
    /\ \E t \in tasks :
          /\ t.pc = "senduser"
          /\ clientsByUser[t.usr] # Nil
          /\ closed[clientsByUser[t.usr]]

----------------------------------------------------------------------------
\* Properties of starting and advancing a session.

\* a start whose broadcast has returned: the call is about to return nil
StartsDone == {t \in tasks : t.kind = "StartQuiz" /\ t.pc = "ret"}
\* task t broadcast the question at position i out of all the questions
IsQuestion(t, i) ==
    /\ Item(t).type = "question"
    /\ Item(t).index = i
    /\ Item(t).total = NumQuestions
    /\ Item(t).question.id = Questions[i].id
\* broadcast t visited connection c once and put k copies on its queue
Queued(t, c, k) ==
    /\ Cardinality({o \in t.seen : o.c = c}) = 1
    /\ \A o \in t.seen : o.c = c => o.sent = k
\* broadcast t found the queue of connection c open and with space
HadSpace(t, c) == \A o \in t.seen : o.c = c => (~o.closed /\ o.len < SendCap)

\* C18 as stated: after a successful start the session is active and every
\* connection of the room has one question with index 0 and the number of
\* questions as total put on its queue.
C18_QuestionOnEveryQueue ==
    \A t \in StartsDone :
        /\ dbActive[t.code]
        /\ IsQuestion(t, 0)
        /\ \A c \in t.snap : Queued(t, c, 1)

\* C18, amended: after a successful start the session is active and every
\* connection of the room whose queue was open and had space has one question
\* with index 0 and the number of questions as total put on its queue; a
\* connection whose queue was full or closed has none.
C18_QuestionOnOpenQueues ==
    \A t \in StartsDone :
        /\ dbActive[t.code]
        /\ IsQuestion(t, 0)
        /\ \A c \in t.snap : Queued(t, c, IF HadSpace(t, c) THEN 1 ELSE 0)

\* C18 arises: a repeated start has returned; it put its question on the
\* queue of one connection and found the queue of another full.
C18_RestartFoundFull ==
    \E t \in StartsDone :
        /\ starts[t.code] >= 2
        /\ \E c \in t.snap : HadSpace(t, c) /\ Queued(t, c, 1)
        /\ \E c \in t.snap : ~HadSpace(t, c) /\ Queued(t, c, 0)

\* a start requested by a user who is not the creator of the session
NonHostStart(t) == t.kind = "StartQuiz" /\ t.usr # CreatorID[t.code]

\* C19: a start requested by a user who is not the host does nothing: the
\* step that accepts it resets no progress row, and no step it takes marks
\* the session active or puts a message on a queue.
C19_NonHostStartIgnored ==
    [][/\ \A t \in tasks' \ tasks :
             (NonHostStart(t) /\ t.pc = "activate") => progress' = progress
       /\ \A t \in tasks \ tasks' :
             NonHostStart(t) => (dbActive' = dbActive /\ starts' = starts /\ send' = send)]_vars

\* C19 arises: a start requested by the connected participant has returned;
\* it marked the session active and put the first question on a queue.
C19_ParticipantStarted ==
    \E t \in StartsDone :
        /\ NonHostStart(t)
        /\ \E c \in Conns : user[c] = t.usr /\ ~isHost[c]
        /\ dbActive[t.code]
        /\ \E c \in t.snap : Queued(t, c, 1)

\* the advance requests being served
Advances == {t \in tasks : t.kind = "HandleNextQuestion"}

\* C20: a host's advance request with current index i makes one broadcast to
\* the room: quiz_end and no question if i + 1 is at or past the number of
\* questions, else the question at position i + 1 with index i + 1 and the
\* number of questions as total; the broadcast visits every connection of
\* the room once and leaves at most one copy on each.
C20_AdvanceBroadcast ==
    \A t \in Advances :
        /\ Len(t.msgs) = 1
        /\ IF t.idx + 1 >= NumQuestions
           THEN Item(t) = MsgQuizEnd
           ELSE IsQuestion(t, t.idx + 1)
        /\ t.pc = "ret" =>
              \A c \in t.snap : Queued(t, c, IF HadSpace(t, c) THEN 1 ELSE 0)

\* C20 arises: the host asked to advance from a question that is not the
\* last, and the broadcast has returned after putting the next question on
\* the queue of the host's and of the participant's connection.
C20_NextQuestionQueued ==
    \E t \in Advances :
        /\ t.pc = "ret" /\ isHost[t.conn]
        /\ t.idx + 1 < NumQuestions
        /\ t.snap = Room(t.code) /\ Cardinality(t.snap) = 2
        /\ \A c \in t.snap : Queued(t, c, 1)

----------------------------------------------------------------------------
\* Properties of answers.

\* C21: an answer submitted under the host's identity returns score 0 and no
\* error, stores no response, changes no progress row, starts no goroutine
\* and puts nothing on a queue; and no goroutine ever prepares a personal
\* message for the host.
C21_HostAnswerIgnored ==
    [][/\ \A q \in Codes, a \in Answers, ts \in TimesSpent :
             ProcessAnswer(q, CreatorID[q], a, ts) =>
                 /\ ProcessAnswerScore(q, CreatorID[q], a, ts) = [score |-> 0, err |-> FALSE]
                 /\ storeVars' = storeVars
                 /\ tasks' = tasks /\ send' = send
       /\ \A t \in tasks' :
             t.kind \in {"ProcessAnswer", "HandleNextQuestionForUser"} =>
                 t.usr # CreatorID[t.code]]_vars

\* C21 arises: both requests of the run have been served, one was the
\* participant's answer, and the other left nothing stored, queued or running.
C21_NothingLeft ==
    /\ budget = 0 /\ tasks = {} /\ Alive
    /\ \A q \in Codes :
          /\ starts[q] = 1
          /\ responses[q][CreatorID[q]] = <<>> /\ progress[q][CreatorID[q]] = NoRow
          /\ Cardinality({u \in Users : responses[q][u] # <<>>}) = 1
          /\ \A u \in Users : Len(responses[q][u]) <= 1
    /\ \A c \in Conns : isHost[c] => (send[c] = <<>> /\ readPump[c] = "read")

\* the score the rule gives for t elapsed seconds, t >= 0: nothing for a
\* wrong answer, else 1000 less 10 per second and never below 0
RuleScore(answer, correctAnswer, t) ==
    IF answer # correctAnswer THEN 0
    ELSE IF t[4] > 0 \/ t[3] > 0 \/ t[2] > 0 \/ t[1] >= 100 THEN 0
    ELSE 1000 - 10 * t[1]

\* C22: the score stored for an answer and returned for it is the one the
\* rule gives, for every answer text and every elapsed time t >= 0: 1000 at
\* t = 0, 0 at t = 150, 0 for a wrong answer.
C22_ScoreFollowsRule ==
    [][\A q \in Codes, u \in Users, a \in Answers, ts \in ScoreTimes :
          (u # CreatorID[q] /\ ~Negative(ts) /\ ProcessAnswer(q, u, a, ts)) =>
              /\ ProcessAnswerScore(q, u, a, ts).score
                    = RuleScore(a, Questions[0].correctAnswer, ts)
              /\ responses'[q][u]
                    = Append(responses[q][u], RuleScore(a, Questions[0].correctAnswer, ts))]_vars

\* C22 arises: a score above 1000 has been stored for a correct answer.
C22_ScoreAboveMaximum ==
    \E q \in Codes, u \in Users : \E i \in 1..Len(responses[q][u]) : responses[q][u][i] > 1000

----------------------------------------------------------------------------
\* Properties of the completion of a session.

\* the users with a stored response for quiz q, and those among them whose
\* next index is short of the number of questions
Answering(q) == {u \in Users : responses[q][u] # <<>>}
MidSequence(q) == {u \in Answering(q) : progress[q][u] < NumQuestions}

\* C23: in the step that broadcasts a final_leaderboard for a session, no
\* user with a stored response is short of the number of questions.
C23_FinalOnlyWhenAllDone ==
    [][\A t \in tasks \ tasks' : t.pc = "final" => MidSequence(t.code) = {}]_vars

\* C23 arises: a completion check that counted as many finished players as
\* answering ones is about to publish while a user who has answered since is
\* short of the number of questions.
C23_PublishingTooEarly ==
    \E t \in tasks :
        /\ t.pc \in {"scores", "del", "zadd", "final"}
        /\ t.fin >= t.tot
        /\ MidSequence(t.code) # {}

C25_PayloadIsRanking ==
    [][\A t \in tasks' \ tasks :
          (t.pc = "read" /\ Item(t).type = "final_leaderboard") =>
              Item(t).board = GetLeaderboard(t.code)]_vars

\* C25 arises: one completion check has cleared the cached ranking and not
\* yet rewritten it while another is about to read it for its broadcast.
C25_ReadWhileCleared ==
    \E t1, t2 \in tasks :
        /\ t1.pc = "zadd" /\ t2.pc = "final" /\ t1.code = t2.code
        /\ leaderboard[t1.code] = <<>>
        /\ Answering(t1.code) # {}

----------------------------------------------------------------------------
\* Properties of the outbound queues.

\* C26: the messages of a connection are written to its transport in the
\* order they were enqueued, none reordered, duplicated or skipped: a step
\* changes a queue only by putting one message behind those it holds, or by
\* taking the message at its front, which is the one written.
C26_WrittenInQueueOrder ==
    [][\A c \in Conns :
          \/ send'[c] = send[c]
          \/ /\ Len(send'[c]) = Len(send[c]) + 1
             /\ SubSeq(send'[c], 1, Len(send[c])) = send[c]
          \/ /\ send[c] # <<>>
             /\ send'[c] = Tail(send[c])]_vars

\* a live connection's queue holds two different messages, and one was written
C26_TwoQueued ==
    \E c \in Conns :
        /\ ~closed[c] /\ writePump[c] = "run"
        /\ Len(send[c]) = 2 /\ send[c][1] # send[c][2]
        /\ budget < MaxOrder - 1

----------------------------------------------------------------------------
\* Properties of the announcements.

\* the message of the given type enqueued last among those c's queue holds
Latest(c, type) ==
    {send[c][i] : i \in {j \in DOMAIN send[c] :
        /\ send[c][j].type = type
        /\ \A k \in DOMAIN send[c] : k > j => send[c][k].type # type}}
\* a connection has left the room of q, no unregistration is waiting and
\* every announcement goroutine has run
Settled(q) ==
    /\ Alive /\ Quiet
    /\ Room(q) # Conns
    /\ \A c \in Conns : readPump[c] # "unregister"

\* C27: once the membership of a room has stopped changing and the pending
\* announcements have run, the last participant_list and the last
\* participant_update on every remaining connection give the room's final
\* participants and their number.
C27_LastAnnouncementCurrent ==
    \A q \in Codes : \A c \in Room(q) :
        (Settled(q) /\ ~closed[c]) =>
            /\ \A m \in Latest(c, "participant_update") :
                   m.count = Cardinality(Announced(q))
            /\ \A m \in Latest(c, "participant_list") :
                   /\ m.participants = {user[x] : x \in Announced(q)}
                   /\ m.count = Cardinality(Announced(q))

\* the host's connection left and the remaining participant was told of -1
C27_CountBelowZero ==
    \E q \in Codes : \E c \in Room(q) :
        /\ Settled(q) /\ ~closed[c] /\ user[c] # Nil /\ ~isHost[c]
        /\ Latest(c, "participant_update") = {MsgUpdate(-1)}

----------------------------------------------------------------------------
\* Properties of the progress rows.

\* the answers of u that are stored and whose index update is still to come
Advancing(q, u) ==
    {t \in tasks : t.code = q /\ t.usr = u /\ t.pc \in {"getidx", "setidx"}}

\* C28: every processed answer of a participant raises that user's next index
\* by one: with no reset since the first answer, once the k answers stored
\* for a user have all been processed the index is k, also when several of
\* them were processed at the same time.
C28_IndexCountsAnswers ==
    \A q \in Codes, u \in Users :
        (Advancing(q, u) = {} /\ responses[q][u] # <<>>) =>
            progress[q][u] = Len(responses[q][u])

\* two answers of one user were processed and one advance was lost
C28_AdvanceLost ==
    \E q \in Codes, u \in Users :
        /\ Advancing(q, u) = {}
        /\ Len(responses[q][u]) = 2 /\ progress[q][u] = 1

----------------------------------------------------------------------------
\* Properties of the targeted sends.

\* the targeted sends that took their step
Sent == {t \in tasks \ tasks' : t.pc = "senduser"}
\* only the queue of connection c changed, by message m put at its end
OnlyQueued(c, m) ==
    /\ send'[c] = Append(send[c], m)
    /\ \A d \in Conns \ {c} : send'[d] = send[d]

\* C29 as stated: when a participant's advanced index is below the number of
\* questions, one question with that index is put on the queue of the
\* participant's own connection and nothing on any other queue.
C29_QuestionOnOwnQueue ==
    [][\A t \in Sent : Item(t).type = "question" =>
          \E c \in Room(t.code) :
              user[c] = t.usr /\ OnlyQueued(c, MsgQuestion(t.idx, FALSE))]_vars

\* C29, amended: the question with the advanced index is put on the queue of
\* the connection registered for the participant when there is one and its
\* queue is open and has space, and no queue changes otherwise; nothing is
\* ever put on another queue.
C29_QuestionOnOpenOwnQueue ==
    [][\A t \in Sent : Item(t).type = "question" =>
          LET c == clientsByUser[t.usr]
          IN IF c # Nil /\ CanQueue(c)
             THEN user[c] = t.usr /\ t.idx < NumQuestions
                  /\ OnlyQueued(c, MsgQuestion(t.idx, FALSE))
             ELSE send' = send]_vars

\* C29 arises: a question is about to be sent to a participant whose queue
\* is full, while the host's queue has space
C29_OwnQueueFull ==
    \E t \in tasks :
        /\ t.pc = "senduser" /\ Item(t).type = "question"
        /\ clientsByUser[t.usr] # Nil
        /\ ~closed[clientsByUser[t.usr]]
        /\ Len(send[clientsByUser[t.usr]]) = SendCap
        /\ \E d \in Room(t.code) : isHost[d] /\ CanQueue(d)

\* the completion checks that compared their counts in this step and found
\* fewer finished players than participants
Waiting ==
    {t \in tasks \ tasks' :
        t.pc = "totcount" /\ t.fin < GetUniqueParticipantsForQuiz(t.code)}
\* the goroutine of t after the step, if it goes on
After(t) == {x \in tasks' : x.id = t.id}
\* a check that found players missing goes on to the waiting notice only,
\* and the send of the notice ends the goroutine unless the queue was full
WaitsOnly ==
    /\ \A t \in Waiting :
          /\ After(t) # {}
          /\ \A x \in After(t) : x.pc = "senduser" /\ x.msgs = <<MsgWait>>
          /\ send' = send /\ finals' = finals
    /\ \A t \in Sent : Item(t).type = "quiz_end_wait" =>
          \A x \in After(t) : x.pc = "unregisterUser"

\* C30 as stated: when a participant finishes while fewer players have
\* finished than take part, the only message produced is one quiz_end_wait
\* on that participant's connection: no final_leaderboard is broadcast and
\* no other queue changes.
C30_OneWaitOnOwnQueue ==
    [][/\ WaitsOnly
       /\ \A t \in Sent : Item(t).type = "quiz_end_wait" =>
             \E c \in Room(t.code) : user[c] = t.usr /\ OnlyQueued(c, MsgWait)]_vars

\* C30, amended: no final_leaderboard is broadcast and no other queue
\* changes; the quiz_end_wait is put on the queue of the connection
\* registered for the participant when there is one and its queue is open and
\* has space, and no queue changes otherwise.
C30_WaitOnOpenOwnQueue ==
    [][/\ WaitsOnly
       /\ \A t \in Sent : Item(t).type = "quiz_end_wait" =>
             LET c == clientsByUser[t.usr]
             IN IF c # Nil /\ CanQueue(c)
                THEN user[c] = t.usr /\ OnlyQueued(c, MsgWait)
                ELSE send' = send]_vars

\* C30 arises: the waiting notice is about to be sent to a participant who
\* finished over the REST route and has no connection, another participant
\* being connected
C30_WaitWithoutConnection ==
    \E t \in tasks :
        /\ t.pc = "senduser" /\ Item(t).type = "quiz_end_wait"
        /\ t.fin < t.tot
        /\ clientsByUser[t.usr] = Nil
        /\ Room(t.code) # {}

\* C31: the next index of every user in every session lies between 0 and the
\* number of questions: an answer submitted after the sequence is exhausted,
\* or a repeated answer, does not push it past the total.
C31_IndexWithinTotal ==
    \A q \in Codes, u \in Users :
        progress[q][u] # NoRow =>
            (0 <= progress[q][u] /\ progress[q][u] <= NumQuestions)

\* a user has answered once more than there are questions, one answer after
\* the other, and the index followed
C31_AnsweredPastEnd ==
    \E q \in Codes, u \in Users :
        /\ Advancing(q, u) = {}
        /\ Len(responses[q][u]) = NumQuestions + 1
        /\ progress[q][u] = NumQuestions + 1

\* C32: a targeted question or waiting notice produced for a session is put
\* only on the queue of a connection attached to that session's room, also
\* when the user's latest participant connection belongs to another session.
C32_TargetInSessionRoom ==
    [][\A t \in Sent : \A c \in Conns :
          send'[c] # send[c] => c \in Room(t.code)]_vars

\* a question of one session is about to be sent to a user whose registered
\* connection is attached to another session's room and has space
C32_TargetElsewhere ==
    \E t \in tasks :
        /\ t.pc = "senduser" /\ Item(t).type = "question"
        /\ clientsByUser[t.usr] # Nil
        /\ CanQueue(clientsByUser[t.usr])
        /\ quizCode[clientsByUser[t.usr]] # t.code
        /\ clientsByUser[t.usr] \notin Room(t.code)

\* the indexes of the question messages on c's queue, in queue order
RECURSIVE QuestionIndexes(_)
QuestionIndexes(sq) ==
    IF sq = <<>> THEN <<>>
    ELSE IF Head(sq).type = "question"
         THEN <<Head(sq).index>> \o QuestionIndexes(Tail(sq))
         ELSE QuestionIndexes(Tail(sq))

\* C33: the questions sent to one participant by the participant-driven
\* path are put on that participant's queue in strictly increasing index
\* order, also when the answers come in quick succession: the questions a
\* queue holds have increasing indexes.
C33_QuestionsInIncreasingOrder ==
    \A c \in Conns :
        LET ix == QuestionIndexes(send[c])
        IN \A i, j \in DOMAIN ix : i < j => ix[i] < ix[j]

\* two answers of the participant were under way together and the same
\* question was put on its queue twice
C33_SameQuestionTwice ==
    \E c \in Conns :
        /\ ~closed[c] /\ user[c] # Nil /\ ~isHost[c]
        /\ QuestionIndexes(send[c]) = <<1, 1>>
        /\ Len(responses[quizCode[c]][user[c]]) >= 2

----------------------------------------------------------------------------
\* Properties of the identity maps.

\* the entries of the host map and of the participant map that point to c
References(c) ==
    {<<"hosts", u>> : u \in {x \in Users : hosts[x] = c}}
       \cup {<<"clientsByUser", u>> : u \in {x \in Users : clientsByUser[x] = c}}

\* C34: a connection is referenced by at most one of the host map and the
\* participant map, and under one user identity, however many join_quiz
\* messages it sends and whatever the host lookup returns.
C34_OneReference ==
    \A c \in Conns : Cardinality(References(c)) <= 1

\* a registered connection announced itself as a participant and then as the
\* host, and both maps point to it
C34_HostAndParticipant ==
    \E c \in clients, u \in Users :
        /\ isHost[c] /\ user[c] = CreatorID[quizCode[c]]
        /\ hosts[user[c]] = c
        /\ u # user[c] /\ clientsByUser[u] = c

\* C35: unregistering an older connection of a user never removes the entry
\* of an identity map that points to a newer connection of that user which
\* is still registered: an entry is removed only with its own connection.
C35_NewerEntryKept ==
    [][\A u \in Users :
          /\ (clientsByUser[u] # Nil /\ clientsByUser'[u] = Nil) =>
                 clientsByUser[u] \notin clients'
          /\ (hosts[u] # Nil /\ hosts'[u] = Nil) => hosts[u] \notin clients']_vars

\* both connections of the room announced the same participant and the
\* participant map points to the newer one
C35_TwoConnectionsOneUser ==
    /\ {"c1", "c2"} \subseteq clients
    /\ user["c1"] = "u1" /\ user["c2"] = "u1"
    /\ clientsByUser["u1"] = "c2"
    /\ budget >= 1 /\ Paced /\ Alive

----------------------------------------------------------------------------
\* Properties of the stored scores.

\* C36: for every answer and every elapsed time a client can supply,
\* negative ones included, the score recorded for the response lies between
\* 0 and 1000.
C36_ScoreInRange ==
    \A q \in Codes, u \in Users : \A i \in DOMAIN responses[q][u] :
        0 <= responses[q][u][i] /\ responses[q][u][i] <= 1000

\* a correct answer with an elapsed time of -5 seconds was stored with 1050
C36_NegativeTimeStored ==
    \E q \in Codes, u \in Users : \E i \in DOMAIN responses[q][u] :
        /\ responses[q][u][i] = 1050
        /\ calculateScore("a", Questions[0].correctAnswer, Sub(GoInt(0), GoInt(5))) = 1050

----------------------------------------------------------------------------
\* Properties of the host-driven advance with any index.

\* C37: for every currentIndex a client can send in next_question, negative
\* ones included, the advance broadcasts quiz_end or a question whose index
\* lies in 0 .. total - 1, and never reads outside the question sequence.
C37_AdvanceWithinSequence ==
    /\ panicked # IndexPanic
    /\ \A t \in tasks : (t.kind = "HandleNextQuestion" /\ t.msgs # <<>>) =>
          \/ Item(t).type = "quiz_end"
          \/ /\ Item(t).type = "question"
             /\ Item(t).index \in 0 .. (NumQuestions - 1)

\* the host's connection sent next_question with currentIndex -2 and the
\* read of questions[-1] ended the process
C37_ReadBeforeFirst ==
    /\ panicked = IndexPanic
    /\ \E c \in Conns : isHost[c] /\ readPump[c] = "handle"
    /\ budget < MaxRequests

----------------------------------------------------------------------------
\* Properties of the cached copy of a session.

\* C38: after a start has returned success for a session, every lookup of
\* the session by its code reports it active: the cached copy and the stored
\* one agree on the activity state.
C38_LookupReportsActive ==
    \A q \in Codes :
        (starts[q] >= 1 /\ \A t \in tasks : t.kind # "StartQuiz") =>
            /\ GetQuizByCode(q)
            /\ cacheQuiz[q] \in {<<>>, <<dbActive[q]>>}

\* a start has returned, the stored session is active and the copy cached
\* when the session was created still says inactive
C38_CachedCopyStale ==
    \E q \in Codes :
        /\ starts[q] >= 1 /\ tasks = {}
        /\ dbActive[q] /\ cacheQuiz[q] = <<FALSE>>

----------------------------------------------------------------------------
\* Properties of a failed save.

\* a participant's answer was taken and no response was stored for it
SaveFailed == budget' = budget - 1 /\ responses' = responses

\* C39: if persisting the response fails, processing the answer returns an
\* error, the user's progress index is unchanged and no advance task is
\* started, so that no question or notice is sent for that answer.
C39_FailedSaveStopsAnswer ==
    [][/\ SaveFailed =>
             /\ \E t \in tasks' : /\ tasks' = tasks \cup {t} /\ t \notin tasks
                                   /\ t.kind = "SubmitAnswer" /\ t.pc = "error"
             /\ progress' = progress
             /\ send' = send
       /\ \A t \in tasks \ tasks' : t.pc = "error" =>
             /\ tasks' = tasks \ {t}
             /\ progress' = progress
             /\ send' = send]_vars

\* the save of an answer has failed after an earlier answer of the same
\* participant had been processed
C39_SaveFailedAfterAnswer ==
    \E t \in tasks :
        /\ t.pc = "error"
        /\ progress[t.code][t.usr] = 1
        /\ Len(responses[t.code][t.usr]) = 1

----------------------------------------------------------------------------
\* Properties of the membership.

\* the rooms connection c is a member of
RoomsOf(c) == {q \in DOMAIN quizRooms : c \in quizRooms[q]}

\* C40: a connection is in the hub's set of clients exactly when it is a
\* member of the room of its own session code, whichever path registered or
\* unregistered it, and it is never a member of two rooms.
C40_ClientsMatchRooms ==
    \A c \in Conns :
        /\ c \in clients <=> (quizCode[c] # Nil /\ c \in Room(quizCode[c]))
        /\ Cardinality(RoomsOf(c)) <= 1
        /\ RoomsOf(c) \subseteq {quizCode[c]}

\* both rooms exist, one connection is attached to one of them, and the
\* connection of the other has left and was unregistered
C40_OneLeftOneStays ==
    \E c, d \in Conns :
        /\ c \in clients /\ quizCode[c] = OtherCode /\ ~closed[c]
        /\ quizCode[d] = "Q1" /\ closed[d] /\ d \notin clients
        /\ readPump[d] = "exit"
        /\ DOMAIN quizRooms = Codes \cup {OtherCode}

====
